---- MODULE Spec2Model ----
(***************************************************************************)
(* Control-flow flattening (src/src/transforms/cff.ts) of a Scratch        *)
(* script into a PC-dispatched state machine, and the behaviour of the     *)
(* generated run_N / step_N procedures, wait handler and green-flag        *)
(* cleanup on the Scratch runtime (cooperative, one thread runs at a time, *)
(* a thread gives up control only where it yields).                        *)
(***************************************************************************)
EXTENDS Integers, Sequences, FiniteSets, TLC

\* ------------------------------------------------------------------------
\* Bounds of the model
\* ------------------------------------------------------------------------
PcRange == 12        \* PCs are drawn from -PcRange..PcRange without 0
NThreads == 2        \* caller threads that may run the flattened script
NTokens == 2         \* size of the domain `pick random` draws tokens from
MaxTrace == 3        \* a thread is ticked only while its trace is shorter
StepFuel == 12       \* iterations of the warp loop before it counts as hung
MaxBstStates == 6    \* largest state set handed to the dispatch tree check

\* ------------------------------------------------------------------------
\* Program constants
\* ------------------------------------------------------------------------
EXIT_PC == 0
PC_MIN == 0 - PcRange
PC_MAX == PcRange

\* A read of a list item at an invalid index (0, or past the end) reports the
\* empty string; Empty stands for it among the numbers of the model.
Empty == 0 - 999

\* ------------------------------------------------------------------------
\* Scratch runtime primitives used by the generated blocks
\* ------------------------------------------------------------------------
\* data_itemnumoflist: first position of v, 0 when absent
RECURSIVE itemNumFrom(_, _, _)
itemNumFrom(list, v, i) ==
  IF i > Len(list) THEN 0
  ELSE IF list[i] = v THEN i ELSE itemNumFrom(list, v, i + 1)

itemNumOfList(list, v) == itemNumFrom(list, v, 1)

\* data_itemoflist
itemOfList(list, i) == IF i \in 1..Len(list) THEN list[i] ELSE Empty

\* data_replaceitemoflist: nothing happens at an invalid index
replaceItemOfList(list, i, v) ==
  IF i \in 1..Len(list) THEN [list EXCEPT ![i] = v] ELSE list

\* data_deleteoflist: nothing happens at an invalid index
deleteOfList(list, i) ==
  IF i \in 1..Len(list)
  THEN [k \in 1..(Len(list) - 1) |-> IF k < i THEN list[k] ELSE list[k + 1]]
  ELSE list

\* data_addtolist
addToList(list, v) == Append(list, v)

\* Cast.toNumber: the empty string counts as 0 in arithmetic
toNumber(v) == IF v = Empty THEN 0 ELSE v

\* operator_equals / operator_lt / operator_gt follow Cast.compare: an empty
\* string is compared as a string, so it equals no number (not even 0) and
\* sorts before every number.
scratchEquals(a, b) == a = b
scratchLt(a, b) ==
  IF a = Empty THEN b # Empty
  ELSE IF b = Empty THEN FALSE ELSE a < b
scratchGt(a, b) == scratchLt(b, a)

\* Counts and durations are kept in tenths (24 is 2.4).
\* operator_mathop ceiling
ceiling(t) == IF t % 10 = 0 THEN t \div 10 ELSE (t \div 10) + 1
\* Math.round as used by the runtime's own `repeat` block
round(t) == (t + 5) \div 10

\* ------------------------------------------------------------------------
\* Input scripts: a chain is a sequence of blocks
\* ------------------------------------------------------------------------
Blk(op) ==
  [opcode |-> op, CONDITION |-> "", expr |-> [src |-> "lit", val |-> 0],
   SUBSTACK |-> <<>>, SUBSTACK2 |-> <<>>, STOP_OPTION |-> "", varField |-> ""]

ChangeX == Blk("data_changevariableby")
SetX0 == Blk("data_setvariableto")
Bcast == Blk("event_broadcast")
If(c, s) == [Blk("control_if") EXCEPT !.CONDITION = c, !.SUBSTACK = s]
IfElse(c, s, t) ==
  [Blk("control_if_else") EXCEPT !.CONDITION = c, !.SUBSTACK = s, !.SUBSTACK2 = t]
Repeat(e, s) == [Blk("control_repeat") EXCEPT !.expr = e, !.SUBSTACK = s]
ForEach(e, s) == [Blk("control_for_each") EXCEPT !.expr = e, !.SUBSTACK = s]
\* for each whose loop variable is the script's variable x
ForEachX(e, s) == [ForEach(e, s) EXCEPT !.varField = "x"]
RepeatUntil(c, s) ==
  [Blk("control_repeat_until") EXCEPT !.CONDITION = c, !.SUBSTACK = s]
While(c, s) == [Blk("control_while") EXCEPT !.CONDITION = c, !.SUBSTACK = s]
Forever(s) == [Blk("control_forever") EXCEPT !.SUBSTACK = s]
AllAtOnce(s) == [Blk("control_all_at_once") EXCEPT !.SUBSTACK = s]
Wait(e) == [Blk("control_wait") EXCEPT !.expr = e]
WaitUntil(c) == [Blk("control_wait_until") EXCEPT !.CONDITION = c]
BroadcastAndWait == Blk("event_broadcastandwait")
Stop(o) == [Blk("control_stop") EXCEPT !.STOP_OPTION = o]
DeleteThisClone == Blk("control_delete_this_clone")
\* a call of the flattened procedure from inside its own body
CallSelf == Blk("procedures_call")
\* an id in a chain for which getFullBlock finds no block; walkChain stops
\* after it, so it can only end a chain
Missing == Blk("missing")
Lit(t) == [src |-> "lit", val |-> t]
Arg == [src |-> "arg", val |-> 0]

C_BLOCK_OPCODES ==
  {"control_if", "control_if_else", "control_repeat", "control_repeat_until",
   "control_while", "control_for_each", "control_all_at_once", "control_forever"}

TERMINATOR_OPCODES ==
  {"control_forever", "control_stop", "control_delete_this_clone"}

\* the test that opens a control segment in decomposeChain
isControlOpcode(op) ==
  \/ op \in C_BLOCK_OPCODES
  \/ op \in TERMINATOR_OPCODES
  \/ op \in {"control_wait", "control_wait_until", "event_broadcastandwait"}

\* ------------------------------------------------------------------------
\* CFG states
\* ------------------------------------------------------------------------
CFGState(pc, kind, nextPc) ==
  [pc |-> pc, kind |-> kind, bodyBlockIds |-> <<>>, nextPc |-> nextPc,
   conditionBlockId |-> "", truePc |-> 0, falsePc |-> 0,
   expr |-> Lit(0), loopStaticId |-> 0, loopBoundStaticId |-> 0,
   bodyPc |-> 0, exitPc |-> 0, pollPc |-> 0, continuationPc |-> 0,
   isTimer |-> FALSE, isDead |-> FALSE, varName |-> ""]

\* randomHugeInt / allocPc: perm is the sequence of draws a decomposition
\* gets; a draw that is EXIT_PC or already in usedPcs is drawn again
\* that the initial state chooses, so PC order is unrelated to source order.
PcPerms ==
  { [k \in 1..PcRange |-> k],
    [k \in 1..PcRange |-> 0 - k],
    [k \in 1..PcRange |-> IF k % 2 = 1 THEN (k + 1) \div 2 ELSE 0 - (k \div 2)] }

\* the accumulator threaded through a decomposition: the states pushed so
\* far, how many PCs were allocated, the yieldRedirects map, the permutation
EmptyAcc(perm) ==
  [states |-> <<>>, used |-> 0, yieldRedirects |-> <<>>, perm |-> perm,
   usedPcs |-> {}]

\* Math.floor(Math.random() * (PC_MAX - PC_MIN + 1)) + PC_MIN, for the
\* outcome u of the floor
randomHugeIntValue(u) == u + PC_MIN

\* variant: a draw is retried only when it is the exit sentinel
allocPcNoRetry(acc) ==
  CHOOSE r \in
    { [pc |-> acc.perm[k],
       acc |-> [acc EXCEPT !.used = k, !.usedPcs = @ \cup {acc.perm[k]}]] :
      k \in { j \in (acc.used + 1)..Len(acc.perm) :
               /\ acc.perm[j] # EXIT_PC
               /\ \A i \in (acc.used + 1)..(j - 1) :
                    acc.perm[i] = EXIT_PC } } : TRUE

\* allocPc: perm is the stream of draws; a draw that is the exit sentinel
\* (randomHugeInt) or was handed out before (usedPcs) is drawn again
allocPc(acc) ==
  CHOOSE r \in
    { [pc |-> acc.perm[k],
       acc |-> [acc EXCEPT !.used = k, !.usedPcs = @ \cup {acc.perm[k]}]] :
      k \in { j \in (acc.used + 1)..Len(acc.perm) :
               /\ acc.perm[j] \notin acc.usedPcs \cup {EXIT_PC}
               /\ \A i \in (acc.used + 1)..(j - 1) :
                    acc.perm[i] \in acc.usedPcs \cup {EXIT_PC} } } : TRUE

pushState(acc, st) == [acc EXCEPT !.states = Append(@, st)]

\* yieldRedirects.set(k, v); the map is kept as a sequence of pairs
setRedirect(acc, k, v) ==
  [acc EXCEPT !.yieldRedirects =
     Append(SelectSeq(@, LAMBDA p : p[1] # k), <<k, v>>)]

yieldRedirectsHas(yr, pc) == \E i \in 1..Len(yr) : yr[i][1] = pc
yieldRedirectsGet(yr, pc) ==
  yr[CHOOSE i \in 1..Len(yr) : yr[i][1] = pc][2]

\* the partition of a chain into linear runs and single control blocks
RECURSIVE segmentsOf(_, _, _)
segmentsOf(blockIds, i, segs) ==
  IF i > Len(blockIds) THEN segs
  ELSE LET b == blockIds[i] IN
    IF b = Missing THEN segmentsOf(blockIds, i + 1, segs)
    ELSE IF isControlOpcode(b.opcode)
    THEN segmentsOf(blockIds, i + 1,
                    Append(segs, [type |-> "control", blockIds |-> <<b>>]))
    ELSE IF Len(segs) > 0 /\ segs[Len(segs)].type = "linear"
    THEN segmentsOf(blockIds, i + 1,
                    [segs EXCEPT ![Len(segs)].blockIds = Append(@, b)])
    ELSE segmentsOf(blockIds, i + 1,
                    Append(segs, [type |-> "linear", blockIds |-> <<b>>]))

RECURSIVE decomposeChain(_, _, _)
RECURSIVE decomposeSegments(_, _, _, _)
RECURSIVE decomposeControlBlock(_, _, _)

\* loops whose body tail is redirected back to a check state
decomposeLoopBody(block, checkPc, acc) ==
  LET y == allocPc(acc)
      a1 == setRedirect(y.acc, y.pc, checkPc)
  IN IF Len(block.SUBSTACK) > 0
     THEN decomposeChain(block.SUBSTACK, y.pc, a1)
     ELSE [pc |-> y.pc, acc |-> a1]

decomposeControlBlock(block, continuationPc, acc) ==
  CASE block.opcode = "control_if" ->
         LET b == allocPc(acc)
             body == IF Len(block.SUBSTACK) > 0
                     THEN decomposeChain(block.SUBSTACK, continuationPc, b.acc)
                     ELSE [pc |-> continuationPc, acc |-> b.acc]
         IN [pc |-> b.pc,
             acc |-> pushState(body.acc,
               [CFGState(b.pc, "branch", continuationPc) EXCEPT
                  !.conditionBlockId = block.CONDITION,
                  !.truePc = body.pc, !.falsePc = continuationPc])]
    [] block.opcode = "control_if_else" ->
         LET b == allocPc(acc)
             t == IF Len(block.SUBSTACK) > 0
                  THEN decomposeChain(block.SUBSTACK, continuationPc, b.acc)
                  ELSE [pc |-> continuationPc, acc |-> b.acc]
             f == IF Len(block.SUBSTACK2) > 0
                  THEN decomposeChain(block.SUBSTACK2, continuationPc, t.acc)
                  ELSE [pc |-> continuationPc, acc |-> t.acc]
         IN [pc |-> b.pc,
             acc |-> pushState(f.acc,
               [CFGState(b.pc, "branch", continuationPc) EXCEPT
                  !.conditionBlockId = block.CONDITION,
                  !.truePc = t.pc, !.falsePc = f.pc])]
    [] block.opcode = "control_forever" ->
         IF Len(block.SUBSTACK) > 0
         THEN LET y == allocPc(acc)
                  body == decomposeChain(block.SUBSTACK, y.pc, y.acc)
              IN [pc |-> body.pc, acc |-> setRedirect(body.acc, y.pc, body.pc)]
         ELSE LET l == allocPc(acc)
              IN [pc |-> l.pc,
                  acc |-> setRedirect(
                            pushState(l.acc, CFGState(l.pc, "normal", l.pc)),
                            l.pc, l.pc)]
    [] block.opcode = "control_repeat" ->
         LET i == allocPc(acc)
             c == allocPc(i.acc)
             body == decomposeLoopBody(block, c.pc, c.acc)
             loopStaticId == i.pc
         IN [pc |-> i.pc,
             acc |-> pushState(
               pushState(body.acc,
                 [CFGState(i.pc, "repeatInit", c.pc) EXCEPT
                    !.expr = block.expr, !.loopStaticId = loopStaticId]),
               [CFGState(c.pc, "repeatCheck", continuationPc) EXCEPT
                  !.loopStaticId = loopStaticId,
                  !.bodyPc = body.pc, !.exitPc = continuationPc])]
    [] block.opcode = "control_for_each" ->
         LET i == allocPc(acc)
             c == allocPc(i.acc)
             body == decomposeLoopBody(block, c.pc, c.acc)
         IN [pc |-> i.pc,
             acc |-> pushState(
               pushState(body.acc,
                 [CFGState(i.pc, "forEachInit", c.pc) EXCEPT
                    !.expr = block.expr,
                    !.loopStaticId = i.pc, !.loopBoundStaticId = c.pc]),
               [CFGState(c.pc, "forEachCheck", continuationPc) EXCEPT
                  !.varName = block.varField,
                  !.loopStaticId = i.pc, !.loopBoundStaticId = c.pc,
                  !.bodyPc = body.pc, !.exitPc = continuationPc])]
    [] block.opcode = "control_repeat_until" ->
         LET c == allocPc(acc)
             body == decomposeLoopBody(block, c.pc, c.acc)
         IN [pc |-> c.pc,
             acc |-> pushState(body.acc,
               [CFGState(c.pc, "branch", continuationPc) EXCEPT
                  !.conditionBlockId = block.CONDITION,
                  !.truePc = continuationPc, !.falsePc = body.pc])]
    [] block.opcode = "control_while" ->
         LET c == allocPc(acc)
             body == decomposeLoopBody(block, c.pc, c.acc)
         IN [pc |-> c.pc,
             acc |-> pushState(body.acc,
               [CFGState(c.pc, "branch", continuationPc) EXCEPT
                  !.conditionBlockId = block.CONDITION,
                  !.truePc = body.pc, !.falsePc = continuationPc])]
    [] block.opcode = "control_all_at_once" ->
         IF Len(block.SUBSTACK) > 0
         THEN decomposeChain(block.SUBSTACK, continuationPc, acc)
         ELSE [pc |-> continuationPc, acc |-> acc]
    [] block.opcode = "control_wait" ->
         LET s == allocPc(acc)
             p == allocPc(s.acc)
         IN [pc |-> s.pc,
             acc |-> pushState(
               pushState(p.acc,
                 [CFGState(s.pc, "waitStart", p.pc) EXCEPT
                    !.expr = block.expr, !.pollPc = p.pc]),
               [CFGState(p.pc, "waitPoll", continuationPc) EXCEPT
                  !.continuationPc = continuationPc, !.isTimer = TRUE])]
    [] block.opcode = "control_wait_until" ->
         LET c == allocPc(acc)
             y == allocPc(c.acc)
         IN [pc |-> c.pc,
             acc |-> pushState(setRedirect(y.acc, y.pc, c.pc),
               [CFGState(c.pc, "branch", continuationPc) EXCEPT
                  !.conditionBlockId = block.CONDITION,
                  !.truePc = continuationPc, !.falsePc = y.pc])]
    [] block.opcode = "event_broadcastandwait" ->
         LET s == allocPc(acc)
             p == allocPc(s.acc)
         IN [pc |-> s.pc,
             acc |-> pushState(
               pushState(p.acc,
                 [CFGState(s.pc, "broadcastWaitStart", p.pc) EXCEPT
                    !.pollPc = p.pc]),
               [CFGState(p.pc, "waitPoll", continuationPc) EXCEPT
                  !.continuationPc = continuationPc, !.isTimer = FALSE])]
    [] block.opcode \in {"control_stop", "control_delete_this_clone"} ->
         LET t == allocPc(acc)
         IN [pc |-> t.pc,
             acc |-> pushState(t.acc,
               [CFGState(t.pc, "terminal", EXIT_PC) EXCEPT
                  !.bodyBlockIds = <<block>>])]
    [] OTHER ->
         LET t == allocPc(acc)
         IN [pc |-> t.pc,
             acc |-> pushState(t.acc,
               [CFGState(t.pc, "normal", continuationPc) EXCEPT
                  !.bodyBlockIds = <<block>>])]

\* the right-to-left pass over the segments, threading nextSegmentPc
decomposeSegments(segs, i, nextSegmentPc, acc) ==
  IF i = 0 THEN [pc |-> nextSegmentPc, acc |-> acc]
  ELSE LET seg == segs[i] IN
    IF seg.type = "linear"
    THEN LET p == allocPc(acc)
         IN decomposeSegments(segs, i - 1, p.pc,
              pushState(p.acc,
                [CFGState(p.pc, "normal", nextSegmentPc) EXCEPT
                   !.bodyBlockIds = seg.blockIds]))
    ELSE LET r == decomposeControlBlock(seg.blockIds[1], nextSegmentPc, acc)
         IN decomposeSegments(segs, i - 1, r.pc, r.acc)

decomposeChain(blockIds, continuationPc, acc) ==
  IF Len(blockIds) = 0 THEN [pc |-> continuationPc, acc |-> acc]
  ELSE LET segs == segmentsOf(blockIds, 1, <<>>)
       IN decomposeSegments(segs, Len(segs), continuationPc, acc)

\* generateDeadStates: count decoy states with unused PCs; their nextPc is
\* any non-zero number (deadNext)
RECURSIVE generateDeadStates(_, _, _)
generateDeadStates(acc, count, deadNext) ==
  IF count = 0 THEN acc
  ELSE LET p == allocPc(acc)
       IN generateDeadStates(
            pushState(p.acc,
              [CFGState(p.pc, "normal", deadNext) EXCEPT
                 !.isDead = TRUE, !.bodyBlockIds = <<Blk("dead_code")>>]),
            count - 1, deadNext)

decomposeToCFG(chainIds, perm, deadStatesPerScript, deadNext) ==
  LET r == decomposeChain(chainIds, EXIT_PC, EmptyAcc(perm))
      d == generateDeadStates(r.acc, deadStatesPerScript, deadNext)
  IN [states |-> d.states, entryPc |-> r.pc,
      yieldRedirects |-> d.yieldRedirects, draws |-> d.used]

\* ------------------------------------------------------------------------
\* Dispatch tree (buildStepFunction sorts the states, buildBSTNode bisects)
\* ------------------------------------------------------------------------
RECURSIVE sortByPc(_)
sortByPc(S) ==
  IF S = {} THEN <<>>
  ELSE LET m == CHOOSE s \in S : \A t \in S : s.pc <= t.pc
       IN <<m>> \o sortByPc(S \ {m})

seqToSet(q) == {q[i] : i \in 1..Len(q)}

Leaf(i) == [isLeaf |-> TRUE, idx |-> i, pivot |-> 0, left |-> <<>>, right |-> <<>>]
Node(pv, l, r) == [isLeaf |-> FALSE, idx |-> 0, pivot |-> pv, left |-> l, right |-> r]

\* variant: the pivot is the last PC of the left half
RECURSIVE buildBSTNodeMidPivot(_, _, _)
buildBSTNodeMidPivot(sorted, lo, hi) ==
  IF lo = hi THEN Leaf(lo)
  ELSE IF lo + 1 = hi THEN Node(sorted[hi], Leaf(lo), Leaf(hi))
  ELSE LET mid == (lo + hi) \div 2
       IN Node(sorted[mid],
               buildBSTNodeMidPivot(sorted, lo, mid),
               buildBSTNodeMidPivot(sorted, mid + 1, hi))

\* sorted is the sequence of PCs in ascending order; a leaf holds the
\* position of its state
RECURSIVE buildBSTNode(_, _, _)
buildBSTNode(sorted, lo, hi) ==
  IF lo = hi THEN Leaf(lo)
  ELSE IF lo + 1 = hi THEN Node(sorted[hi], Leaf(lo), Leaf(hi))
  ELSE LET mid == (lo + hi) \div 2
       IN Node(sorted[mid + 1],
               buildBSTNode(sorted, lo, mid),
               buildBSTNode(sorted, mid + 1, hi))

\* the walk the generated if-else tree performs on the cached PC: only
\* operator_lt against the pivots; cmps counts the comparisons
RECURSIVE dispatch(_, _, _)
dispatch(tree, cached, cmps) ==
  IF tree.isLeaf THEN [idx |-> tree.idx, cmps |-> cmps]
  ELSE IF scratchLt(cached, tree.pivot)
       THEN dispatch(tree.left, cached, cmps + 1)
       ELSE dispatch(tree.right, cached, cmps + 1)

\* ------------------------------------------------------------------------
\* Behaviour of the generated state bodies.  M is the actor's memory while
\* step_N runs for thread token tid with forwarded argument arg:
\*   pcIds, pcVals, waitFlags, bcastPendingMsg   the registry lists
\*   counterKeys, counterVals                    the counter store
\*   waitQueue, recv                             pending queue and receiver
\*   keepGoing, cachedPc, baseIndex              the per-script variables
\*   x                                           the script's own variable
\*   trace                                       side effects of this thread
\*   path                                        <<cached PC, leaf PC>> pairs
\*   halt                                        stop option that ended step_N
\*   hung                                        the warp loop did not end
\* ------------------------------------------------------------------------
NoToken == 0

\* event_broadcast of the wait signal.  event_whenbroadcastreceived is a hat
\* that restarts its running thread, so an activation still inside
\* handleWait is dropped and one fresh activation is scheduled.
broadcastWaitSignal(recv) ==
  [recv EXCEPT !.fresh = TRUE, !.tok = NoToken, !.row = 0]

\* the receiver's thread ends or is stopped; its variable keeps its value
stopReceiver(recv) ==
  [recv EXCEPT !.fresh = FALSE, !.tok = NoToken, !.row = 0]

evalCondition(c, x) ==
  CASE c = "x<2" -> x < 2
    [] c = "x>1" -> x > 1
    [] OTHER -> FALSE

evalExpr(e, arg) == IF e.src = "arg" THEN arg ELSE e.val

RECURSIVE runNested(_)
executeBlock(M, b) ==
  CASE b.opcode = "procedures_call" -> runNested(M)
    [] b.opcode = "data_changevariableby" ->
         [M EXCEPT !.x = @ + 1, !.trace = Append(@, <<"change", M.x + 1>>)]
    [] b.opcode = "data_setvariableto" ->
         [M EXCEPT !.x = 0, !.trace = Append(@, <<"set", 0>>)]
    [] b.opcode = "event_broadcast" ->
         [M EXCEPT !.trace = Append(@, <<"broadcast", 0>>)]
    [] b.opcode = "dead_code" ->
         [M EXCEPT !.trace = Append(@, <<"dead", 0>>)]
    [] b.opcode = "control_stop" -> [M EXCEPT !.halt = b.STOP_OPTION]
    [] b.opcode = "control_delete_this_clone" -> [M EXCEPT !.halt = "clone"]
    [] OTHER -> M

RECURSIVE executeBody(_, _, _)
executeBody(M, blocks, i) ==
  IF i > Len(blocks) \/ M.halt # "" THEN M
  ELSE executeBody(executeBlock(M, blocks[i]), blocks, i + 1)

\* replace item (baseIndex) of pcVals with value
writePcToList(M, value) ==
  [M EXCEPT !.pcVals = replaceItemOfList(@, M.baseIndex, value)]

resolvePc(yr, pc) ==
  IF yieldRedirectsHas(yr, pc) THEN yieldRedirectsGet(yr, pc) ELSE pc

shouldYield(yr, pc) == yieldRedirectsHas(yr, pc) \/ resolvePc(yr, pc) = EXIT_PC

\* the value block of an obfuscated PC write: one of four arithmetic forms
\* over the cached PC, chosen when the state body is generated
NoObf == [kind |-> 0, scramble |-> 0]

buildObfuscatedPcExpr(cached, currentPc, nextPc, kind, scramble) ==
  LET offset == nextPc - currentPc
      c == toNumber(cached)
  IN CASE kind = 1 -> c + offset
       [] kind = 2 -> c - (0 - offset)
       [] kind = 3 -> (c + scramble) - (scramble - offset)
       [] kind = 4 -> (c * 2 + offset * 2) \div 2
       [] OTHER -> nextPc

\* obfuscatePcTransitions ? buildObfuscatedPcExpr(...) : numberLiteral(pc)
pcValueBlock(M, resolvedPc) ==
  IF M.obf.kind # 0
  THEN buildObfuscatedPcExpr(M.cachedPc, M.statePc, resolvedPc,
                             M.obf.kind, M.obf.scramble)
  ELSE resolvedPc

\* the PC write of a state body; `writes` records, for each write, the
\* cached PC, the PC of the state, the destination, and whether the list
\* ends up as the literal write would leave it
storePc(M, resolvedPc) ==
  LET M1 == writePcToList(M, pcValueBlock(M, resolvedPc))
  IN [M1 EXCEPT !.writes = Append(@,
        [cached |-> M.cachedPc, statePc |-> M.statePc, dest |-> resolvedPc,
         same |-> M1.pcVals = writePcToList(M, resolvedPc).pcVals,
         owner |-> M.owner, row |-> M.baseIndex,
         ownRow |-> itemNumOfList(M.pcIds, M.owner)])]

resolveAndWritePc(M, yr, pc) ==
  LET resolvedPc == resolvePc(yr, pc)
      M1 == storePc(M, resolvedPc)
  IN IF shouldYield(yr, pc)
     THEN [M1 EXCEPT !.cachedPc = resolvedPc]
     ELSE [M1 EXCEPT !.keepGoing = 1]

\* variant: the key is the loop's static id alone
buildCounterKeyNoToken(tid, loopStaticId) == <<NoToken, loopStaticId>>

\* join(threadId, join(" ", loopStaticId))
buildCounterKey(tid, loopStaticId) == <<tid, loopStaticId>>

\* variant: the PC list is left alone
deleteRowKeepPc(M, hasWait) ==
  LET M1 == [M EXCEPT !.pcIds = deleteOfList(@, M.baseIndex)]
  IN IF hasWait
     THEN [M1 EXCEPT !.waitFlags = deleteOfList(@, M.baseIndex),
                     !.bcastPendingMsg = deleteOfList(@, M.baseIndex)]
     ELSE M1

\* delete the row at baseIndex from every registry list
deleteRow(M, hasWait) ==
  LET M1 == [M EXCEPT !.pcIds = deleteOfList(@, M.baseIndex),
                      !.pcVals = deleteOfList(@, M.baseIndex)]
  IN IF hasWait
     THEN [M1 EXCEPT !.waitFlags = deleteOfList(@, M.baseIndex),
                     !.bcastPendingMsg = deleteOfList(@, M.baseIndex)]
     ELSE M1

repeatInitBody(M, st, yr, tid, arg) ==
  LET key == buildCounterKey(tid, st.loopStaticId)
      M1 == [M EXCEPT !.counterKeys = addToList(@, key),
                      !.counterVals = addToList(@, ceiling(evalExpr(st.expr, arg)))]
  IN resolveAndWritePc(M1, yr, st.nextPc)

\* variant: the body is entered while the counter is not negative
repeatCheckBodyGeq(M, st, yr, tid) ==
  LET key == buildCounterKey(tid, st.loopStaticId)
      counterIdx == itemNumOfList(M.counterKeys, key)
      counterVal == itemOfList(M.counterVals, counterIdx)
  IN IF ~scratchLt(counterVal, 0)
     THEN LET decremented == toNumber(itemOfList(M.counterVals, counterIdx)) - 1
              M1 == [M EXCEPT !.counterVals =
                        replaceItemOfList(@, counterIdx, decremented)]
          IN resolveAndWritePc(M1, yr, st.bodyPc)
     ELSE LET M1 == [M EXCEPT !.counterKeys = deleteOfList(@, counterIdx),
                              !.counterVals = deleteOfList(@, counterIdx)]
          IN resolveAndWritePc(M1, yr, st.exitPc)

repeatCheckBody(M, st, yr, tid) ==
  LET key == buildCounterKey(tid, st.loopStaticId)
      counterIdx == itemNumOfList(M.counterKeys, key)
      counterVal == itemOfList(M.counterVals, counterIdx)
  IN IF scratchGt(counterVal, 0)
     THEN LET decremented == toNumber(itemOfList(M.counterVals, counterIdx)) - 1
              M1 == [M EXCEPT !.counterVals =
                        replaceItemOfList(@, counterIdx, decremented)]
          IN resolveAndWritePc(M1, yr, st.bodyPc)
     ELSE LET M1 == [M EXCEPT !.counterKeys = deleteOfList(@, counterIdx),
                              !.counterVals = deleteOfList(@, counterIdx)]
          IN resolveAndWritePc(M1, yr, st.exitPc)

forEachInitBody(M, st, yr, tid, arg) ==
  LET M1 == [M EXCEPT
        !.counterKeys = addToList(addToList(@,
            buildCounterKey(tid, st.loopBoundStaticId)),
            buildCounterKey(tid, st.loopStaticId)),
        !.counterVals = addToList(addToList(@,
            ceiling(evalExpr(st.expr, arg))), 0)]
  IN resolveAndWritePc(M1, yr, st.nextPc)

\* variant: the next value is taken from the loop variable, as the runtime's
\* own block would not do either
forEachCheckBodyFromVar(M, st, yr, tid) ==
  LET keyC == buildCounterKey(tid, st.loopStaticId)
      keyB == buildCounterKey(tid, st.loopBoundStaticId)
      idxC == itemNumOfList(M.counterKeys, keyC)
      counterVal == IF st.varName = "x" /\ itemOfList(M.counterVals, idxC) # 0
                    THEN M.x ELSE itemOfList(M.counterVals, idxC)
      boundVal == itemOfList(M.counterVals, itemNumOfList(M.counterKeys, keyB))
  IN IF scratchLt(counterVal, boundVal)
     THEN LET newCtr == toNumber(counterVal) + 1
              M1 == [M EXCEPT
                  !.counterVals = replaceItemOfList(@, idxC, newCtr),
                  !.x = IF st.varName = "x" THEN newCtr ELSE @,
                  !.trace = Append(@, <<"loopvar", newCtr>>)]
          IN resolveAndWritePc(M1, yr, st.bodyPc)
     ELSE LET k1 == deleteOfList(M.counterKeys, idxC)
              v1 == deleteOfList(M.counterVals, idxC)
              idxB == itemNumOfList(k1, keyB)
              M1 == [M EXCEPT !.counterKeys = deleteOfList(k1, idxB),
                              !.counterVals = deleteOfList(v1, idxB)]
          IN resolveAndWritePc(M1, yr, st.exitPc)

forEachCheckBody(M, st, yr, tid) ==
  LET keyC == buildCounterKey(tid, st.loopStaticId)
      keyB == buildCounterKey(tid, st.loopBoundStaticId)
      idxC == itemNumOfList(M.counterKeys, keyC)
      counterVal == itemOfList(M.counterVals, idxC)
      boundVal == itemOfList(M.counterVals, itemNumOfList(M.counterKeys, keyB))
  IN IF scratchLt(counterVal, boundVal)
     THEN LET newCtr == toNumber(counterVal) + 1
              M1 == [M EXCEPT
                  !.counterVals = replaceItemOfList(@, idxC, newCtr),
                  !.x = IF st.varName = "x" THEN newCtr ELSE @,
                  !.trace = Append(@, <<"loopvar", newCtr>>)]
          IN resolveAndWritePc(M1, yr, st.bodyPc)
     ELSE LET k1 == deleteOfList(M.counterKeys, idxC)
              v1 == deleteOfList(M.counterVals, idxC)
              idxB == itemNumOfList(k1, keyB)
              M1 == [M EXCEPT !.counterKeys = deleteOfList(k1, idxB),
                              !.counterVals = deleteOfList(v1, idxB)]
          IN resolveAndWritePc(M1, yr, st.exitPc)

\* variant: the token is queued and the signal sent, the flag is left alone
waitStartBodyNoFlag(M, st, tid, payload, flag) ==
  LET M1 == [M EXCEPT
        !.bcastPendingMsg = replaceItemOfList(@, M.baseIndex, payload),
        !.waitQueue = addToList(@, tid),
        !.recv = broadcastWaitSignal(@)]
  IN [storePc(M1, st.pollPc) EXCEPT !.cachedPc = st.pollPc]

\* store payload, flag the row, enqueue the token, signal, write the poll PC
waitStartBody(M, st, tid, payload, flag) ==
  LET M1 == [M EXCEPT
        !.bcastPendingMsg = replaceItemOfList(@, M.baseIndex, payload),
        !.waitFlags = replaceItemOfList(@, M.baseIndex, flag),
        !.waitQueue = addToList(@, tid),
        !.recv = broadcastWaitSignal(@)]
  IN [storePc(M1, st.pollPc) EXCEPT !.cachedPc = st.pollPc]

\* variant: the poll state continues without reading the flag
waitPollBodyNoFlag(M, st, yr) == resolveAndWritePc(M, yr, st.continuationPc)

waitPollBody(M, st, yr) ==
  IF scratchEquals(itemOfList(M.waitFlags, M.baseIndex), 0)
  THEN resolveAndWritePc(M, yr, st.continuationPc)
  ELSE [M EXCEPT !.cachedPc = st.pc]

\* variant: the two targets are exchanged
branchBodySwapped(M, st, yr) ==
  IF st.conditionBlockId # "" /\ evalCondition(st.conditionBlockId, M.x)
  THEN resolveAndWritePc(M, yr, st.falsePc)
  ELSE resolveAndWritePc(M, yr, st.truePc)

\* variant: a branch without a condition takes its true arm
branchBodyMissingTrue(M, st, yr) ==
  IF st.conditionBlockId = "" \/ evalCondition(st.conditionBlockId, M.x)
  THEN resolveAndWritePc(M, yr, st.truePc)
  ELSE resolveAndWritePc(M, yr, st.falsePc)

branchBody(M, st, yr) ==
  IF st.conditionBlockId # "" /\ evalCondition(st.conditionBlockId, M.x)
  THEN resolveAndWritePc(M, yr, st.truePc)
  ELSE resolveAndWritePc(M, yr, st.falsePc)

terminalBody(M, st, hasWait) ==
  executeBody([deleteRow(M, hasWait) EXCEPT !.keepGoing = 0],
              st.bodyBlockIds, 1)

normalBody(M, st, yr) ==
  LET M1 == resolveAndWritePc(executeBody(M, st.bodyBlockIds, 1), yr, st.nextPc)
  IN IF st.isDead /\ ~shouldYield(yr, st.nextPc)
     THEN [M1 EXCEPT !.keepGoing = 0]
     ELSE M1

buildStateBody(M, st, yr, hasWait, tid, arg) ==
  CASE st.kind = "branch" -> branchBody(M, st, yr)
    [] st.kind = "repeatInit" -> repeatInitBody(M, st, yr, tid, arg)
    [] st.kind = "repeatCheck" -> repeatCheckBody(M, st, yr, tid)
    [] st.kind = "forEachInit" -> forEachInitBody(M, st, yr, tid, arg)
    [] st.kind = "forEachCheck" -> forEachCheckBody(M, st, yr, tid)
    [] st.kind = "terminal" -> terminalBody(M, st, hasWait)
    [] st.kind = "waitStart" ->
         waitStartBody(M, st, tid, evalExpr(st.expr, arg), 1)
    [] st.kind = "broadcastWaitStart" -> waitStartBody(M, st, tid, 0, 0 - 1)
    [] st.kind = "waitPoll" -> waitPollBody(M, st, yr)
    [] OTHER -> normalBody(M, st, yr)

\* the warp loop of step_N: repeat until keepGoing = 0
RECURSIVE stepLoop(_, _, _, _, _)
stepLoop(M, c, tid, arg, fuel) ==
  IF scratchEquals(M.keepGoing, 0) \/ M.halt # "" THEN M
  ELSE IF fuel = 0 THEN [M EXCEPT !.hung = TRUE]
  ELSE LET cached == itemOfList(M.pcVals, M.baseIndex)
           leaf == dispatch(c.tree, cached, 0)
           st == c.sorted[leaf.idx]
           M1 == [M EXCEPT !.keepGoing = 0, !.cachedPc = cached,
                           !.statePc = st.pc, !.owner = tid,
                           !.path = Append(@, <<cached, st.pc>>)]
       IN stepLoop(buildStateBody(M1, st, c.yieldRedirects, c.hasWait, tid, arg),
                   c, tid, arg, fuel - 1)

\* variant: the base index is the one the last caller left behind
buildStepFunctionStaleIndex(M, c, tid, arg) ==
  stepLoop([M EXCEPT !.keepGoing = 1], c, tid, arg, StepFuel)

buildStepFunction(M, c, tid, arg) ==
  stepLoop([M EXCEPT !.keepGoing = 1,
                     !.baseIndex = itemNumOfList(M.pcIds, tid)],
           c, tid, arg, StepFuel)

\* the rows run_N appends before its loop
appendRow(M, c, tid) ==
  LET M1 == [M EXCEPT !.pcIds = addToList(@, tid),
                      !.pcVals = addToList(@, c.entryPc)]
  IN IF c.hasWait
     THEN [M1 EXCEPT !.waitFlags = addToList(@, 0),
                     !.bcastPendingMsg = addToList(@, 0)]
     ELSE M1

\* the exit condition of run_N's loop
exitCondition(ids, vals, tid) ==
  scratchEquals(itemOfList(vals, itemNumOfList(ids, tid)), 0)

\* `pick random` of a nested call: a token that no row holds
nestedToken(M) ==
  CHOOSE t \in 1..(Len(M.pcIds) + 1) :
    /\ itemNumOfList(M.pcIds, t) = 0
    /\ \A u \in 1..(t - 1) : itemNumOfList(M.pcIds, u) # 0

\* run_N called from a state body: the caller is in warp mode, so the
\* driver's loop runs to its end without a yield, then the cleanup
RECURSIVE warpRun(_, _, _)
warpRun(M, tok, fuel) ==
  IF M.hung \/ M.halt # "" THEN M
  ELSE IF exitCondition(M.pcIds, M.pcVals, tok)
  THEN deleteRow([M EXCEPT !.baseIndex = itemNumOfList(M.pcIds, tok)],
                 M.proc.hasWait)
  ELSE IF fuel = 0 THEN [M EXCEPT !.hung = TRUE]
  ELSE warpRun(buildStepFunction(M, M.proc, tok, 0), tok, fuel - 1)

\* the procedure calls itself: its definition calls run_N with a new token;
\* keepGoing, cachedPc and baseIndex stay as the nested run leaves them
runNested(M) ==
  LET tok == nestedToken(M)
      R == warpRun(appendRow(M, M.proc, tok), tok, StepFuel)
  IN [R EXCEPT !.statePc = M.statePc, !.owner = M.owner]

\* ------------------------------------------------------------------------
\* The flattened script and the actor's state
\* ------------------------------------------------------------------------
VARIABLES
  cfg,              \* the decomposition of the script and its dispatch tree
  pcIds, pcVals,    \* registry: thread tokens and their PCs
  waitFlags,        \* registry: 0 idle, 1 timed wait, -1 rendezvous wait
  bcastPendingMsg,  \* registry: wait payload
  counterKeys, counterVals,   \* the counter store
  waitQueue,        \* tokens waiting for the handler
  recv,             \* the receiver of the wait signal
  keepGoing, cachedPc, baseIndex,   \* per-script variables
  x,                \* the script's own variable
  thr,              \* the caller threads running run_N
  greenFlags,       \* how often the green flag was clicked
  bst,              \* a state set, its tree and one query (dispatch check)
  target,           \* an actor's scripts and what the pass has made of them
  flag              \* the green-flag scripts of the actor and their start

vars == <<cfg, pcIds, pcVals, waitFlags, bcastPendingMsg, counterKeys,
          counterVals, waitQueue, recv, keepGoing, cachedPc, baseIndex, x,
          thr, greenFlags, bst, target, flag>>

Threads == 1..NThreads
Tokens == 1..NTokens
ArgValues == {0 - 10, 0, 14, 24}   \* -1, 0, 1.4, 2.4 in tenths
ConcArgs == {4, 14}                \* 0.4 and 1.4
DeadStatesPerScript == 2
MaxGreenFlags == 1

RECURSIVE hasOpcode(_, _)
hasOpcode(chain, op) ==
  \E i \in 1..Len(chain) :
    \/ chain[i].opcode = op
    \/ hasOpcode(chain[i].SUBSTACK, op)
    \/ hasOpcode(chain[i].SUBSTACK2, op)

\* the script reads the procedure argument forwarded through run_N / step_N
RECURSIVE hasArg(_)
hasArg(chain) ==
  \E i \in 1..Len(chain) :
    \/ chain[i].expr.src = "arg"
    \/ hasArg(chain[i].SUBSTACK)
    \/ hasArg(chain[i].SUBSTACK2)

\* flattenHatScript / flattenProcedureBody: decompose, build the tree
\* the step function's dispatch data for the decomposition d of chain
flattenCFG(chain, d) ==
  LET sorted == sortByPc(seqToSet(d.states))
  IN [chain |-> chain, states |-> d.states, sorted |-> sorted,
      tree |-> IF Len(sorted) = 0 THEN Leaf(0)
               ELSE buildBSTNode([k \in 1..Len(sorted) |-> sorted[k].pc],
                                 1, Len(sorted)),
      entryPc |-> d.entryPc, yieldRedirects |-> d.yieldRedirects,
      draws |-> d.draws,
      hasWait |-> hasOpcode(chain, "control_wait")
                  \/ hasOpcode(chain, "event_broadcastandwait"),
      obf |-> NoObf]

flatten(chain, perm, deadNext) ==
  flattenCFG(chain, decomposeToCFG(chain, perm, DeadStatesPerScript, deadNext))

WaitFreeScripts ==
  { <<ChangeX, Bcast>>,
    <<IfElse("x<2", <<ChangeX>>, <<SetX0>>), Bcast>>,
    <<IfElse("x<2", <<ChangeX>>, <<SetX0>>)>>,
    <<IfElse("x>1", <<ChangeX>>, <<SetX0>>)>>,
    <<Repeat(Arg, <<ChangeX>>), Bcast>>,
    <<While("x<2", <<ChangeX>>), Bcast>>,
    <<RepeatUntil("x>1", <<ChangeX, Bcast>>)>>,
    <<Forever(<<ChangeX>>)>>,
    <<ForEach(Arg, <<ChangeX>>), Bcast>>,
    <<ChangeX, Stop("this script"), Bcast>>,
    <<Repeat(Lit(14), <<If("x>1", <<Stop("all")>>), ChangeX>>)>> }

WaitScripts ==
  { <<ChangeX, Wait(Lit(10)), Bcast>>,
    <<Wait(Arg), Repeat(Lit(10), <<ChangeX>>)>>,
    <<BroadcastAndWait, ChangeX>> }

\* the scripts several threads run at once
Scripts ==
  WaitScripts \cup
  { <<Repeat(Arg, <<ChangeX>>), Bcast>>,
    <<ChangeX, Stop("this script"), Bcast>>,
    <<Repeat(Lit(14), <<If("x>1", <<Stop("all")>>), ChangeX>>)>> }

IdleThread ==
  [st |-> "idle", tid |-> NoToken, arg |-> 0, trace |-> <<>>, path |-> <<>>,
   term |-> FALSE, redispatched |-> FALSE, writes |-> <<>>]

NoBst == [pcs |-> <<>>, q |-> 0, idx |-> 0, cmps |-> 0]

\* an actor before the pass has looked at it
NoTarget ==
  [phase |-> "none", config |-> [minBlocksToFlatten |-> 0,
                                 flattenProcedures |-> FALSE],
   scripts |-> <<>>, orig |-> <<>>, visited |-> {}, runStep |-> {},
   registryLists |-> FALSE, waitLists |-> FALSE, cleanupHat |-> FALSE,
   waitHandler |-> FALSE]

\* the lists and variables as the project file declares them
\* hat: how the flattened script is started; cleanup: the cleanup hat has
\* been started by a click and has not run yet; start: the start signal has
\* been sent
NoFlag == [hat |-> "", cleanup |-> FALSE, start |-> FALSE]

InitActor ==
  /\ flag = NoFlag
  /\ pcIds = <<>> /\ pcVals = <<>> /\ waitFlags = <<>> /\ bcastPendingMsg = <<>>
  /\ counterKeys = <<>> /\ counterVals = <<>> /\ waitQueue = <<>>
  /\ recv = [fresh |-> FALSE, tok |-> NoToken, savedTid |-> 0, row |-> 0]
  /\ keepGoing = 0 /\ cachedPc = 0 /\ baseIndex = 0
  /\ x = 0
  /\ thr = [i \in Threads |-> IdleThread]
  /\ greenFlags = 0

InitWith(scripts) ==
  /\ \E chain \in scripts, perm \in PcPerms :
       cfg = flatten(chain, perm, perm[1])
  /\ InitActor
  /\ bst = NoBst
  /\ target = NoTarget

Init == InitWith(Scripts)

Memory(i) ==
  [pcIds |-> pcIds, pcVals |-> pcVals, waitFlags |-> waitFlags,
   bcastPendingMsg |-> bcastPendingMsg, counterKeys |-> counterKeys,
   counterVals |-> counterVals, waitQueue |-> waitQueue, recv |-> recv,
   keepGoing |-> keepGoing, cachedPc |-> cachedPc, baseIndex |-> baseIndex,
   x |-> x, trace |-> thr[i].trace, path |-> <<>>, halt |-> "",
   hung |-> FALSE, done |-> FALSE,
   obf |-> cfg.obf, statePc |-> 0, writes |-> <<>>,
   owner |-> NoToken, proc |-> cfg]

\* variant: the loop ends without the cleanup
buildRunFunctionNoCleanup(M, c, tid, arg) ==
  IF exitCondition(M.pcIds, M.pcVals, tid)
  THEN [M EXCEPT !.baseIndex = itemNumOfList(M.pcIds, tid), !.done = TRUE]
  ELSE buildStepFunction(M, c, tid, arg)

\* one pass of run_N's loop: either the condition holds and the cleanup
\* runs, or step_N is called and the thread yields
buildRunFunction(M, c, tid, arg) ==
  IF exitCondition(M.pcIds, M.pcVals, tid)
  THEN [deleteRow([M EXCEPT !.baseIndex = itemNumOfList(M.pcIds, tid)],
                  c.hasWait)
          EXCEPT !.done = TRUE]
  ELSE buildStepFunction(M, c, tid, arg)

killsThreads(R) == R.halt \in {"all", "clone"}

Commit(R) ==
  /\ pcIds' = R.pcIds /\ pcVals' = R.pcVals /\ waitFlags' = R.waitFlags
  /\ bcastPendingMsg' = R.bcastPendingMsg
  /\ counterKeys' = R.counterKeys /\ counterVals' = R.counterVals
  /\ waitQueue' = R.waitQueue
  /\ recv' = IF killsThreads(R) THEN stopReceiver(R.recv)
             ELSE R.recv
  /\ keepGoing' = R.keepGoing /\ cachedPc' = R.cachedPc
  /\ baseIndex' = R.baseIndex /\ x' = R.x

afterPass(t, R) ==
  [t EXCEPT
     !.trace = R.trace, !.path = R.path, !.writes = R.writes,
     !.st = IF R.done THEN "done"
            ELSE IF killsThreads(R) THEN "dead"
            ELSE IF R.hung THEN "hung" ELSE "running",
     !.term = @ \/ R.halt # "",
     !.redispatched = @ \/ (t.term /\ ~R.done)]

ThreadsAfter(i, t, R) ==
  [j \in Threads |->
     IF j = i THEN afterPass(t, R)
     ELSE IF killsThreads(R) /\ thr[j].st \in {"running", "hung"}
          THEN [thr[j] EXCEPT !.st = "dead"]
          ELSE thr[j]]

\* `pick random` returns a token that no row and no live thread holds
freeToken(tok) ==
  /\ itemNumOfList(pcIds, tok) = 0
  /\ \A j \in Threads : thr[j].st \in {"running", "hung"} => thr[j].tid # tok

\* a hat fires or a caller invokes the flattened procedure: run_N starts
\* with a token from `pick random` and runs up to its first yield; tokens
\* are only ever compared for equality, so the least free one stands for all
StartWith(i, args) ==
  /\ thr[i].st = "idle"
  /\ \A j \in Threads : j < i => thr[j].st # "idle"   \* callers are interchangeable
  /\ \E tok \in Tokens, arg \in (IF hasArg(cfg.chain) THEN args ELSE {0}) :
       /\ freeToken(tok)
       /\ \A other \in Tokens : other < tok => ~freeToken(other)
       /\ LET t == [thr[i] EXCEPT !.tid = tok, !.arg = arg]
              R == buildRunFunction(appendRow(Memory(i), cfg, tok), cfg, tok, arg)
          IN /\ Commit(R)
             /\ thr' = ThreadsAfter(i, t, R)
  /\ UNCHANGED <<cfg, greenFlags, bst, target, flag>>

Start(i) == StartWith(i, ConcArgs)

\* the scheduler resumes run_N after its yield; cap bounds the recorded trace
TickWith(i, cap) ==
  /\ thr[i].st = "running"
  /\ \/ Len(thr[i].trace) < cap
     \/ exitCondition(pcIds, pcVals, thr[i].tid)
  /\ LET R == buildRunFunction(Memory(i), cfg, thr[i].tid, thr[i].arg)
     IN /\ Commit(R)
        /\ thr' = ThreadsAfter(i, thr[i], R)
  /\ UNCHANGED <<cfg, greenFlags, bst, target, flag>>

Tick(i) == TickWith(i, MaxTrace)

\* variant: the activation takes the newest token of the queue
ReceiverPopsLast ==
  /\ recv.fresh
  /\ IF Len(waitQueue) > 0
     THEN LET savedTid == itemOfList(waitQueue, Len(waitQueue))
              rest == deleteOfList(waitQueue, Len(waitQueue))
              saved == [recv EXCEPT !.savedTid = savedTid]
          IN /\ waitQueue' = rest
             /\ recv' = IF Len(rest) > 0
                        THEN broadcastWaitSignal(saved)
                        ELSE [saved EXCEPT
                                !.fresh = FALSE, !.tok = saved.savedTid,
                                !.row = itemNumOfList(pcIds, saved.savedTid)]
     ELSE /\ recv' = stopReceiver(recv)
          /\ UNCHANGED waitQueue
  /\ UNCHANGED <<cfg, pcIds, pcVals, waitFlags, bcastPendingMsg, counterKeys,
                 counterVals, keepGoing, cachedPc, baseIndex, x, thr,
                 greenFlags, bst, target, flag>>

\* the receiver of the wait signal: pop one token, re-broadcast if more are
\* queued, call handleWait with the popped token (the value of savedTid when
\* the call is made; nothing yields between the pop and the call)
Receiver ==
  /\ recv.fresh
  /\ IF Len(waitQueue) > 0
     THEN LET savedTid == itemOfList(waitQueue, 1)
              rest == deleteOfList(waitQueue, 1)
              saved == [recv EXCEPT !.savedTid = savedTid]
          IN /\ waitQueue' = rest
             /\ recv' = IF Len(rest) > 0
                        THEN broadcastWaitSignal(saved)
                        ELSE [saved EXCEPT
                                !.fresh = FALSE, !.tok = saved.savedTid,
                                !.row = itemNumOfList(pcIds, saved.savedTid)]
     ELSE /\ recv' = stopReceiver(recv)
          /\ UNCHANGED waitQueue
  /\ UNCHANGED <<cfg, pcIds, pcVals, waitFlags, bcastPendingMsg, counterKeys,
                 counterVals, keepGoing, cachedPc, baseIndex, x, thr,
                 greenFlags, bst, target, flag>>

\* variant: the flag is cleared at the row the handler read its payload from
HandleWaitCachedIndex ==
  /\ recv.tok # NoToken
  /\ waitFlags' = replaceItemOfList(waitFlags, recv.row, 0)
  /\ recv' = [recv EXCEPT !.tok = NoToken]
  /\ UNCHANGED <<cfg, pcIds, pcVals, bcastPendingMsg, counterKeys,
                 counterVals, waitQueue, keepGoing, cachedPc, baseIndex, x,
                 thr, greenFlags, bst, target, flag>>

\* handleWait resumes after its wait (or rendezvous) and clears the flag at
\* the index it computes from its token then; recv.row keeps the index at
\* which it read its payload when it was called
HandleWait ==
  /\ recv.tok # NoToken
  /\ waitFlags' = replaceItemOfList(waitFlags,
                                    itemNumOfList(pcIds, recv.tok), 0)
  /\ recv' = [recv EXCEPT !.tok = NoToken]
  /\ UNCHANGED <<cfg, pcIds, pcVals, bcastPendingMsg, counterKeys,
                 counterVals, waitQueue, keepGoing, cachedPc, baseIndex, x,
                 thr, greenFlags, bst, target, flag>>

\* green flag: the runtime stops every thread, then the cleanup hat clears
\* the lists and broadcasts the start signal
GreenFlag ==
  /\ greenFlags < MaxGreenFlags
  /\ \E i \in Threads : thr[i].st # "idle"
  /\ greenFlags' = greenFlags + 1
  /\ thr' = [j \in Threads |->
               IF thr[j].st \in {"running", "hung"}
               THEN [thr[j] EXCEPT !.st = "dead"] ELSE thr[j]]
  /\ recv' = stopReceiver(recv)
  /\ pcIds' = <<>> /\ pcVals' = <<>> /\ counterKeys' = <<>>
  /\ counterVals' = <<>>
  /\ waitFlags' = <<>> /\ bcastPendingMsg' = <<>> /\ waitQueue' = <<>>
  /\ UNCHANGED <<cfg, keepGoing, cachedPc, baseIndex, x, bst, target, flag>>

Next ==
  \/ \E i \in Threads : Start(i)
  \/ \E i \in Threads : Tick(i)
  \/ Receiver
  \/ HandleWait
  \/ GreenFlag

Spec == Init /\ [][Next]_vars

\* ------------------------------------------------------------------------
\* One thread running a wait-free script
\* ------------------------------------------------------------------------
MaxTraceOne == 5

InitOne == InitWith(WaitFreeScripts)
StartOne == StartWith(1, ArgValues)
TickOne == TickWith(1, MaxTraceOne)

NextOne ==
  \/ StartOne
  \/ TickOne

SpecOne == InitOne /\ [][NextOne]_vars

\* ------------------------------------------------------------------------
\* The dispatch tree on its own: a set of states with distinct PCs is
\* sorted, bisected, and queried with the PC of one of its states
\* ------------------------------------------------------------------------
BstPcs == {p \in PC_MIN..PC_MAX : p # EXIT_PC /\ p % 3 = 0}

InitBST ==
  /\ cfg = flatten(<<ChangeX, Bcast>>, [k \in 1..PcRange |-> k], 1)
  /\ InitActor
  /\ \E S \in SUBSET BstPcs :
       /\ Cardinality(S) \in 1..MaxBstStates
       /\ LET sorted == sortByPc({CFGState(p, "normal", EXIT_PC) : p \in S})
          IN bst = [NoBst EXCEPT !.pcs = [k \in 1..Len(sorted) |-> sorted[k].pc]]
  /\ target = NoTarget

Query ==
  /\ bst.q = 0
  /\ \E k \in 1..Len(bst.pcs) :
       LET r == dispatch(buildBSTNode(bst.pcs, 1, Len(bst.pcs)), bst.pcs[k], 0)
       IN bst' = [bst EXCEPT !.q = bst.pcs[k], !.idx = r.idx, !.cmps = r.cmps]
  /\ UNCHANGED <<cfg, pcIds, pcVals, waitFlags, bcastPendingMsg, counterKeys,
                 counterVals, waitQueue, recv, keepGoing, cachedPc, baseIndex,
                 x, thr, greenFlags, target, flag>>

NextBST == Query

SpecBST == InitBST /\ [][NextBST]_vars

\* ------------------------------------------------------------------------
\* The original script on the Scratch runtime (the reference for C1):
\* control_repeat rounds its count, control_for_each counts up to its
\* bound, control_stop ends the script.  R carries x, the trace, the stop
\* option that ended the script, and cut (the run was abandoned because the
\* trace or the iteration budget reached RefLen).
\* ------------------------------------------------------------------------
RefLen == MaxTraceOne + StepFuel

RECURSIVE refChain(_, _, _, _)
RECURSIVE refBlock(_, _, _)
RECURSIVE refLoop(_, _, _, _)

refLoop(R, b, arg, n) ==
  IF R.halt # "" \/ R.cut THEN R
  ELSE IF R.fuel = 0 \/ Len(R.trace) >= RefLen THEN [R EXCEPT !.cut = TRUE]
  ELSE LET go == CASE b.opcode = "control_repeat" -> n > 0
                   [] b.opcode = "control_for_each" ->
                        n * 10 < evalExpr(b.expr, arg)
                   [] b.opcode = "control_repeat_until" ->
                        ~evalCondition(b.CONDITION, R.x)
                   [] b.opcode = "control_while" ->
                        evalCondition(b.CONDITION, R.x)
                   [] OTHER -> TRUE
           R1 == [R EXCEPT !.fuel = @ - 1,
                    !.trace = IF b.opcode = "control_for_each"
                              THEN Append(@, <<"loopvar", n + 1>>) ELSE @]
       IN IF go
          THEN refLoop(refChain(R1, b.SUBSTACK, 1, arg), b, arg,
                       IF b.opcode = "control_repeat" THEN n - 1 ELSE n + 1)
          ELSE R

refBlock(R, b, arg) ==
  CASE b.opcode = "control_if" ->
         IF evalCondition(b.CONDITION, R.x)
         THEN refChain(R, b.SUBSTACK, 1, arg) ELSE R
    [] b.opcode = "control_if_else" ->
         IF evalCondition(b.CONDITION, R.x)
         THEN refChain(R, b.SUBSTACK, 1, arg)
         ELSE refChain(R, b.SUBSTACK2, 1, arg)
    [] b.opcode = "control_repeat" ->
         refLoop(R, b, arg, round(evalExpr(b.expr, arg)))
    [] b.opcode \in {"control_for_each", "control_repeat_until",
                     "control_while", "control_forever"} ->
         refLoop(R, b, arg, 0)
    [] b.opcode = "control_all_at_once" -> refChain(R, b.SUBSTACK, 1, arg)
    [] OTHER -> executeBlock(R, b)

refChain(R, blocks, i, arg) ==
  IF i > Len(blocks) \/ R.halt # "" \/ R.cut THEN R
  ELSE refChain(refBlock(R, blocks[i], arg), blocks, i + 1, arg)

RefRun(chain, arg) ==
  refChain([x |-> 0, trace |-> <<>>, halt |-> "", cut |-> FALSE,
            fuel |-> RefLen], chain, 1, arg)

IsPrefix(a, b) == Len(a) <= Len(b) /\ \A k \in 1..Len(a) : a[k] = b[k]

\* ------------------------------------------------------------------------
\* Claims
\* ------------------------------------------------------------------------
\* C1: a wait-free script run flattened as one thread produces the same
\* sequence of observable side effects as the original script: what the
\* flattened thread has done so far is a prefix of the original's effects,
\* and a flattened thread that has ended has produced all of them.
C1_SameSideEffects ==
  LET t == thr[1]
      ref == RefRun(cfg.chain, t.arg)
  IN t.st # "idle" =>
       IF ref.cut
       THEN \A k \in 1..Len(t.trace) :
              k <= Len(ref.trace) => t.trace[k] = ref.trace[k]
       ELSE /\ IsPrefix(t.trace, ref.trace)
            /\ t.st \in {"done", "dead"} => t.trace = ref.trace

\* the PCs of the states of the flattened script
StatePcs == {cfg.sorted[k].pc : k \in 1..Len(cfg.sorted)}

recordedPc(i) == itemOfList(pcVals, itemNumOfList(pcIds, thr[i].tid))

\* C2: at every tick boundary each live thread's token has exactly one
\* registry row, the PC in that row is the PC of exactly one state (or 0 once
\* the thread has finished), and every leaf the dispatcher executed had the
\* PC the dispatcher had read for the thread.
C2_SingleActiveState ==
  \A i \in Threads : thr[i].st = "running" =>
    /\ Cardinality({k \in 1..Len(pcIds) : pcIds[k] = thr[i].tid}) = 1
    /\ \/ recordedPc(i) = EXIT_PC
       \/ Cardinality({k \in 1..Len(cfg.sorted) :
                         cfg.sorted[k].pc = recordedPc(i)}) = 1
    /\ \A k \in 1..Len(thr[i].path) : thr[i].path[k][1] = thr[i].path[k][2]

\* the least k with 2^k >= n
CeilLog2(n) == CHOOSE k \in 0..n : 2 ^ k >= n /\ (k = 0 \/ 2 ^ (k - 1) < n)

\* C3: for a set of n >= 1 states with pairwise-distinct PCs, the tree built
\* by buildBSTNode, queried with the PC of a state of the set, ends at the
\* leaf of that state after at most ceil(log2 n) strict less-than
\* comparisons against pivots.
C3_BstTotal ==
  bst.q # 0 =>
    /\ bst.idx \in 1..Len(bst.pcs)
    /\ bst.pcs[bst.idx] = bst.q
    /\ bst.cmps <= CeilLog2(Len(bst.pcs))

\* a query of a five-state tree that needed all three comparisons
C3_Witness ==
  /\ bst.q # 0
  /\ Len(bst.pcs) >= 5
  /\ bst.pcs[bst.idx] = bst.q
  /\ bst.cmps = CeilLog2(Len(bst.pcs))

\* how often the thread's own trace records an effect
RECURSIVE CountOp(_, _)
CountOp(trace, op) ==
  IF Len(trace) = 0 THEN 0
  ELSE (IF trace[1][1] = op THEN 1 ELSE 0) + CountOp(Tail(trace), op)

\* n is the number of iterations a count of t tenths asks for: the least
\* natural number that is not below t / 10
IsCeilCount(n, t) == n >= 0 /\ 10 * n >= t /\ (n = 0 \/ 10 * (n - 1) < t)

RepeatArgScript == <<Repeat(Arg, <<ChangeX>>), Bcast>>

\* the static id of the script's repeat loop
repeatLoopId ==
  cfg.sorted[CHOOSE k \in 1..Len(cfg.sorted) :
               cfg.sorted[k].kind = "repeatInit"].loopStaticId

\* the counter-store positions that carry thread i's key of that loop
counterIdxOf(i) ==
  {k \in 1..Len(counterKeys) :
     counterKeys[k] = buildCounterKey(thr[i].tid, repeatLoopId)}

\* C4: threads with different tokens running the same flattened repeat loop,
\* their ticks interleaved in any order, each execute the body their own
\* number of times, and no thread's counter entry is read, overwritten or
\* deleted by another: at every tick boundary a thread inside the loop has
\* exactly one entry, and that entry plus the iterations the thread has done
\* is the thread's own count; a thread that left the loop has done exactly
\* its count and, while it still holds its token, has no entry.
C4_CounterIsolation ==
  cfg.chain = RepeatArgScript =>
    \A i \in Threads : thr[i].st \in {"running", "done"} =>
      LET iters == CountOp(thr[i].trace, "change")
          left == CountOp(thr[i].trace, "broadcast") > 0
      IN IF left
         THEN /\ IsCeilCount(iters, thr[i].arg)
              /\ thr[i].st = "running" => counterIdxOf(i) = {}
         ELSE /\ Cardinality(counterIdxOf(i)) = 1
              /\ \A k \in counterIdxOf(i) :
                   IsCeilCount(iters + counterVals[k], thr[i].arg)

\* two threads with different counts are inside the loop at once, each has
\* done an iteration and each has its entry in the store
C4_Witness ==
  /\ cfg.chain = RepeatArgScript
  /\ \E i, j \in Threads :
       /\ thr[i].st = "running" /\ thr[j].st = "running"
       /\ thr[i].arg # thr[j].arg
       /\ CountOp(thr[i].trace, "change") > 0
       /\ CountOp(thr[j].trace, "change") > 0
       /\ counterIdxOf(i) # {} /\ counterIdxOf(j) # {}

isPollPc(pc) ==
  \E k \in 1..Len(cfg.sorted) :
    cfg.sorted[k].kind = "waitPoll" /\ cfg.sorted[k].pc = pc

pollState(pc) ==
  cfg.sorted[CHOOSE k \in 1..Len(cfg.sorted) : cfg.sorted[k].pc = pc]

\* C5: a thread that executed a wait-start state stays at its poll PC on
\* every tick while its flag is non-zero, and the first PC it moves to once
\* the flag is cleared is the wait's continuation PC after yield-redirect
\* resolution.
C5_WaitCorrect ==
  [][\A i \in Threads :
       LET row == itemNumOfList(pcIds, thr[i].tid)
           pc == itemOfList(pcVals, row)
           pcNext == itemOfList(pcVals', itemNumOfList(pcIds', thr[i].tid))
           cont == resolvePc(cfg.yieldRedirects, pollState(pc).continuationPc)
       IN (thr[i].st = "running" /\ row # 0 /\ isPollPc(pc)
             /\ thr'[i].st \in {"running", "done"}) =>
            IF itemOfList(waitFlags, row) # 0
            THEN pcNext = pc
            ELSE \/ pcNext = pc /\ thr'[i].trace = thr[i].trace
                 \/ /\ thr'[i].path[1] = <<pc, pc>>
                    /\ IF Len(thr'[i].path) >= 2
                       THEN thr'[i].path[2][1] = cont
                       ELSE pcNext = cont]_vars

\* a thread whose last pass began at its poll state and went on to the
\* continuation, which did its work
C5_Witness ==
  \E i \in Threads :
    /\ Len(thr[i].path) >= 2
    /\ isPollPc(thr[i].path[1][1])
    /\ thr[i].path[2][1] =
         resolvePc(cfg.yieldRedirects,
                   pollState(thr[i].path[1][1]).continuationPc)
    /\ Len(thr[i].trace) > 0

inQueue(tok) == \E k \in 1..Len(waitQueue) : waitQueue[k] = tok

\* C6: a pending wait of one thread never costs another thread its wait:
\* every running thread whose flag is non-zero still has its token queued
\* for the handler or in the hands of a handler activation, so the flag is
\* going to be cleared; no signal cancels or loses it.
C6_NoLostWait ==
  \A i \in Threads :
    LET row == itemNumOfList(pcIds, thr[i].tid)
    IN (thr[i].st = "running" /\ row # 0 /\ cfg.hasWait
          /\ itemOfList(waitFlags, row) # 0) =>
         inQueue(thr[i].tid) \/ recv.tok = thr[i].tid

\* C7: once every thread that was started has run to completion, the token
\* sequence and every parallel value sequence of the registry are empty.
C7_EmptyAfterCompletion ==
  ((\E i \in Threads : thr[i].st = "done")
     /\ \A i \in Threads : thr[i].st \in {"idle", "done"}) =>
    /\ pcIds = <<>> /\ pcVals = <<>>
    /\ waitFlags = <<>> /\ bcastPendingMsg = <<>>

\* every thread was started and has completed, the registry is empty
C7_Witness ==
  /\ \A i \in Threads : thr[i].st = "done" /\ Len(thr[i].trace) > 0
  /\ pcIds = <<>> /\ pcVals = <<>>

\* C8: at every tick boundary the token sequence and each parallel value
\* sequence of the registry have the same length, whatever starts, ticks,
\* normal exits, terminal states and green-flag cleanups have occurred.
C8_ParallelLengths ==
  /\ Len(pcVals) = Len(pcIds)
  /\ cfg.hasWait =>
       Len(waitFlags) = Len(pcIds) /\ Len(bcastPendingMsg) = Len(pcIds)
  /\ ~cfg.hasWait => waitFlags = <<>> /\ bcastPendingMsg = <<>>

\* one thread has exited normally while another still holds its row in all
\* four lists
C8_Witness ==
  /\ cfg.hasWait
  /\ \E i \in Threads : thr[i].st = "done"
  /\ Len(pcIds) >= 1
  /\ Len(waitFlags) = Len(pcIds) /\ Len(pcVals) = Len(pcIds)

\* C9: after the dispatcher executed a terminal state for a thread, the
\* thread's row is gone and the driver's exit condition is true at its next
\* check, so the driver never calls the dispatcher again for that thread.
C9_TerminalEndsDriver ==
  \A i \in Threads :
    /\ (thr[i].term /\ thr[i].st = "running") =>
         /\ itemNumOfList(pcIds, thr[i].tid) = 0
         /\ exitCondition(pcIds, pcVals, thr[i].tid)
    /\ ~thr[i].redispatched

\* C10: a flattened repeat whose body has no stop executes its body the
\* least natural number of times that is not below N (none when N <= 0),
\* and once the thread has left the loop the counter store holds no entry of
\* that thread.
C10_RepeatCount ==
  (cfg.chain = RepeatArgScript /\ thr[1].st \in {"running", "done"}
     /\ CountOp(thr[1].trace, "broadcast") > 0) =>
    /\ IsCeilCount(CountOp(thr[1].trace, "change"), thr[1].arg)
    /\ counterIdxOf(1) = {}

\* repeat 2.4 has run its body three times and the thread has ended
C10_Witness ==
  /\ cfg.chain = RepeatArgScript
  /\ thr[1].st = "done"
  /\ thr[1].arg = 24
  /\ CountOp(thr[1].trace, "change") = 3
  /\ counterKeys = <<>>

\* the leaves of a dispatch tree, as positions in the sorted state list
RECURSIVE leavesOf(_)
leavesOf(tree) ==
  IF tree.isLeaf THEN {tree.idx}
  ELSE leavesOf(tree.left) \cup leavesOf(tree.right)

\* the number of leaves, counted with repetition
RECURSIVE leafCount(_)
leafCount(tree) ==
  IF tree.isLeaf THEN 1 ELSE leafCount(tree.left) + leafCount(tree.right)

realStates == {k \in 1..Len(cfg.states) : ~cfg.states[k].isDead}

isIfElseOnly ==
  /\ Len(cfg.chain) = 1
  /\ cfg.chain[1].opcode = "control_if_else"

\* C11: a chain that is one if-else with two linear substacks decomposes
\* into exactly three real states: one branch state whose true-PC is the PC
\* of the state holding the first substack and whose false-PC is the PC of
\* the state holding the second, both body states continuing at the exit
\* sentinel; the tree has these three leaves plus the dead ones; and a run
\* executes the first body when the condition is true, the second otherwise.
C11_IfElseDecomposition ==
  isIfElseOnly =>
    /\ Cardinality(realStates) = 3
    /\ \E b, t, f \in realStates :
         /\ b # t /\ b # f /\ t # f
         /\ cfg.states[b].kind = "branch"
         /\ cfg.states[b].conditionBlockId = cfg.chain[1].CONDITION
         /\ cfg.states[t].kind = "normal" /\ cfg.states[f].kind = "normal"
         /\ cfg.states[t].bodyBlockIds = cfg.chain[1].SUBSTACK
         /\ cfg.states[f].bodyBlockIds = cfg.chain[1].SUBSTACK2
         /\ cfg.states[b].truePc = cfg.states[t].pc
         /\ cfg.states[b].falsePc = cfg.states[f].pc
         /\ cfg.states[t].nextPc = EXIT_PC /\ cfg.states[f].nextPc = EXIT_PC
         /\ cfg.entryPc = cfg.states[b].pc
    /\ leafCount(cfg.tree) = 3 + DeadStatesPerScript
    /\ leavesOf(cfg.tree) = 1..(3 + DeadStatesPerScript)
    /\ Len(cfg.sorted) = 3 + DeadStatesPerScript
    /\ thr[1].st # "idle" =>
         thr[1].trace =
           IF evalCondition(cfg.chain[1].CONDITION, 0)
           THEN <<<<"change", 1>>>> ELSE <<<<"set", 0>>>>

\* the if-else whose condition is false at the start has run its second
\* substack and ended
C11_Witness ==
  /\ isIfElseOnly
  /\ ~evalCondition(cfg.chain[1].CONDITION, 0)
  /\ thr[1].st = "done"
  /\ thr[1].trace = <<<<"set", 0>>>>

\* ------------------------------------------------------------------------
\* Threads whose token is whatever `pick random` returns: the hat passes
\* the value of operator_random to run_N and nothing compares it with the
\* tokens already registered
\* ------------------------------------------------------------------------
StartAny(i) ==
  /\ thr[i].st = "idle"
  /\ \A j \in Threads : j < i => thr[j].st # "idle"
  /\ \E tok \in Tokens, arg \in (IF hasArg(cfg.chain) THEN ConcArgs ELSE {0}) :
       LET t == [thr[i] EXCEPT !.tid = tok, !.arg = arg]
           R == buildRunFunction(appendRow(Memory(i), cfg, tok), cfg, tok, arg)
       IN /\ Commit(R)
          /\ thr' = ThreadsAfter(i, t, R)
  /\ UNCHANGED <<cfg, greenFlags, bst, target, flag>>

NextAny ==
  \/ \E i \in Threads : StartAny(i)
  \/ \E i \in Threads : Tick(i)
  \/ Receiver
  \/ HandleWait

SpecAny == Init /\ [][NextAny]_vars

\* C12: at every moment the tokens registered in the actor's token sequence
\* are pairwise distinct, so a lookup of a live thread's token finds the row
\* of that thread and of no other.
C12_TokensDistinct ==
  /\ \A k, l \in 1..Len(pcIds) : k # l => pcIds[k] # pcIds[l]
  /\ \A i, j \in Threads :
       (i # j /\ thr[i].st = "running" /\ thr[j].st = "running") =>
         thr[i].tid # thr[j].tid

\* ------------------------------------------------------------------------
\* PC-transition obfuscation: one caller of a script flattened with
\* obfuscatePcTransitions on; the form and the scramble constant are drawn
\* when the script is flattened
\* ------------------------------------------------------------------------
ObfKinds == 1..4

ScrambleValues == {1000, 99999}

ObfScripts == WaitFreeScripts \cup Scripts

InitObf ==
  /\ \E chain \in ObfScripts, perm \in PcPerms, kind \in ObfKinds,
        scramble \in ScrambleValues :
       /\ kind # 3 => scramble = 1000
       /\ cfg = [flatten(chain, perm, perm[1])
                   EXCEPT !.obf = [kind |-> kind, scramble |-> scramble]]
  /\ InitActor
  /\ bst = NoBst
  /\ target = NoTarget

StartObf == StartWith(1, ConcArgs)

TickObf == TickWith(1, MaxTraceOne)

NextObf == StartObf \/ TickObf \/ Receiver \/ HandleWait

SpecObf == InitObf /\ [][NextObf]_vars

\* C13, first half: at every PC write the cached PC is the PC of the state
\* whose body performs the write
C13_CachedIsStatePc ==
  \A i \in Threads : \A k \in 1..Len(thr[i].writes) :
    thr[i].writes[k].cached = thr[i].writes[k].statePc

\* C13, second half: every obfuscated write leaves the PC list as the
\* literal write would, and the generated form evaluates to the destination
\* for every pair of PCs in the allocation range
C13_FormsExact ==
  /\ \A i \in Threads : \A k \in 1..Len(thr[i].writes) :
       thr[i].writes[k].same
  /\ \A cur \in PC_MIN..PC_MAX, nxt \in PC_MIN..PC_MAX :
       buildObfuscatedPcExpr(cur, cur, nxt, cfg.obf.kind, cfg.obf.scramble)
         = nxt

\* C13: with PC-transition obfuscation on, the cached PC equals the PC of
\* the executing state at every PC write, so each of the four forms stores
\* the destination PC the literal write would store
C13_ObfuscatedPcExact == C13_CachedIsStatePc /\ C13_FormsExact

\* ------------------------------------------------------------------------
\* The pass over one actor: which scripts are flattened and what the actor
\* is given (applyCFFToTarget, flattenHatScript, flattenProcedureBody)
\* ------------------------------------------------------------------------
NScripts == 2

HAT_OPCODES ==
  {"event_whenflagclicked", "event_whenkeypressed",
   "event_whenthisspriteclicked", "event_whenstageclicked",
   "event_whenbackdropswitchesto", "event_whengreaterthan",
   "event_whenbroadcastreceived", "control_start_as_clone"}

\* the thresholds of the four presets, with either setting for procedures
MinBlocksValues == 2..5

TopOpcodes ==
  {"event_whenflagclicked", "event_whenbroadcastreceived",
   "procedures_definition"}

PassChains ==
  { <<ChangeX>>,
    <<ChangeX, Bcast>>,
    <<ChangeX, Wait(Lit(10)), Bcast>>,
    <<ChangeX, SetX0, ChangeX, Bcast>>,
    <<ChangeX, SetX0, ChangeX, SetX0, Bcast>> }

\* a top-level block with the chain hanging from its next pointer
TopBlock(opcode, blocks) ==
  [opcode |-> opcode, next |-> "chain", blocks |-> blocks]

walkChain(script) ==
  IF script.next = "chain" THEN script.blocks ELSE <<>>

hatBlockIds(t) ==
  {k \in 1..Len(t.scripts) : t.scripts[k].opcode \in HAT_OPCODES}

procDefIds(t) ==
  IF t.config.flattenProcedures
  THEN {k \in 1..Len(t.scripts) :
          t.scripts[k].opcode = "procedures_definition"}
  ELSE {}

hasCFFWork(t) ==
  \E k \in hatBlockIds(t) \cup procDefIds(t) :
    /\ Len(walkChain(t.scripts[k])) > 0
    /\ Len(walkChain(t.scripts[k])) >= t.config.minBlocksToFlatten

\* the pre-scan of all blocks of the actor for wait opcodes
needsWait(t) ==
  \E k \in 1..Len(t.scripts) :
    \/ hasOpcode(t.scripts[k].blocks, "control_wait")
    \/ hasOpcode(t.scripts[k].blocks, "event_broadcastandwait")

\* variant: the threshold is compared one block too low
belowThresholdOffByOne(chainIds, config) ==
  Len(chainIds) + 1 < config.minBlocksToFlatten

belowThreshold(chainIds, config) ==
  Len(chainIds) < config.minBlocksToFlatten

\* the common part of flattenHatScript and flattenProcedureBody: return
\* early, or decompose, create run_N / step_N and hang the call of run_N
\* from the top block
flattenScript(t, k) ==
  LET top == t.scripts[k]
      chainIds == walkChain(top)
      seen == [t EXCEPT !.visited = @ \cup {k}]
  IN IF Len(chainIds) = 0 \/ belowThreshold(chainIds, t.config) THEN seen
     ELSE IF Len(flatten(chainIds, [p \in 1..PcRange |-> p], 1).states) = 0
     THEN seen
     ELSE [seen EXCEPT
             !.runStep = @ \cup {k},
             !.scripts[k] =
               [opcode |-> IF top.opcode = "event_whenflagclicked"
                           THEN "event_whenbroadcastreceived"
                           ELSE top.opcode,
                next |-> "runCall", blocks |-> <<>>]]

InitPass ==
  /\ cfg = flatten(<<ChangeX, Bcast>>, [k \in 1..PcRange |-> k], 1)
  /\ InitActor
  /\ bst = NoBst
  /\ \E min \in MinBlocksValues, procs \in BOOLEAN,
        ops \in [1..NScripts -> TopOpcodes],
        chains \in [1..NScripts -> PassChains] :
       LET scripts == [k \in 1..NScripts |-> TopBlock(ops[k], chains[k])]
       IN target = [NoTarget EXCEPT
                      !.phase = "loaded",
                      !.config = [minBlocksToFlatten |-> min,
                                  flattenProcedures |-> procs],
                      !.scripts = scripts, !.orig = scripts]

PassFrame ==
  UNCHANGED <<cfg, pcIds, pcVals, waitFlags, bcastPendingMsg, counterKeys,
              counterVals, waitQueue, recv, keepGoing, cachedPc, baseIndex,
              x, thr, greenFlags, bst, flag>>

\* applyCFFToTarget up to its loops: nothing to do, or the shared lists,
\* the cleanup hat and (if any block waits) the wait handler are created
ApplyCFFToTarget ==
  /\ target.phase = "loaded"
  /\ target' =
       IF ~hasCFFWork(target) THEN [target EXCEPT !.phase = "skipped"]
       ELSE [target EXCEPT !.phase = "flatten",
                           !.registryLists = TRUE,
                           !.cleanupHat = TRUE,
                           !.waitLists = needsWait(target),
                           !.waitHandler = needsWait(target)]
  /\ PassFrame

FlattenHatScript ==
  /\ target.phase = "flatten"
  /\ \E k \in hatBlockIds(target) \ target.visited :
       /\ \A j \in hatBlockIds(target) \ target.visited : k <= j
       /\ target' = flattenScript(target, k)
  /\ PassFrame

FlattenProcedureBody ==
  /\ target.phase = "flatten"
  /\ hatBlockIds(target) \subseteq target.visited
  /\ \E k \in procDefIds(target) \ target.visited :
       /\ \A j \in procDefIds(target) \ target.visited : k <= j
       /\ target' = flattenScript(target, k)
  /\ PassFrame

NextPass == ApplyCFFToTarget \/ FlattenHatScript \/ FlattenProcedureBody

SpecPass == InitPass /\ [][NextPass]_vars

PassDone ==
  \/ target.phase = "skipped"
  \/ /\ target.phase = "flatten"
     /\ hatBlockIds(target) \cup procDefIds(target) \subseteq target.visited

shortScripts ==
  {k \in 1..Len(target.orig) :
     Len(target.orig[k].blocks) < target.config.minBlocksToFlatten}

\* C14: a script whose top-level chain is shorter than minBlocksToFlatten
\* keeps its blocks, its hat opcode and its next pointer and gets no run /
\* step procedures; an actor none of whose scripts reaches the threshold
\* gets no registry lists, no cleanup hat and no wait handler
C14_ShortScriptsUntouched ==
  /\ \A k \in shortScripts :
       /\ target.scripts[k] = target.orig[k]
       /\ k \notin target.runStep
  /\ shortScripts = 1..Len(target.orig) =>
       /\ ~target.registryLists /\ ~target.waitLists
       /\ ~target.cleanupHat /\ ~target.waitHandler

C14_Witness ==
  /\ PassDone
  /\ target.runStep # {}
  /\ \E k \in shortScripts :
       /\ target.orig[k].opcode = "event_whenflagclicked"
       /\ Len(target.orig[k].blocks) + 1 = target.config.minBlocksToFlatten
       /\ k \in target.visited

\* ------------------------------------------------------------------------
\* Fair scheduling: the runtime steps every live thread in every frame, so
\* a thread that can run is not passed over for ever; the handler's wait or
\* rendezvous is assumed to finish
\* ------------------------------------------------------------------------
\* ENABLED <<Tick(i)>>_vars, written out: the pass of run_N that Tick(i)
\* takes changes the state
TickMoves(i) ==
  /\ thr[i].st = "running"
  /\ \/ Len(thr[i].trace) < MaxTrace
     \/ exitCondition(pcIds, pcVals, thr[i].tid)
  /\ LET R == buildRunFunction(Memory(i), cfg, thr[i].tid, thr[i].arg)
     IN <<R.pcIds, R.pcVals, R.waitFlags, R.bcastPendingMsg, R.counterKeys,
          R.counterVals, R.waitQueue,
          IF killsThreads(R) THEN stopReceiver(R.recv)
          ELSE R.recv,
          R.keepGoing, R.cachedPc, R.baseIndex, R.x,
          ThreadsAfter(i, thr[i], R)>>
        # <<pcIds, pcVals, waitFlags, bcastPendingMsg, counterKeys,
            counterVals, waitQueue, recv, keepGoing, cachedPc, baseIndex, x,
            thr>>

\* WF_vars(Tick(i)) with its ENABLED written out as TickMoves(i)
FairTick(i) == []<>(~TickMoves(i)) \/ []<><<Tick(i)>>_vars

SpecFair ==
  /\ Init /\ [][Next]_vars
  /\ \A i \in Threads : FairTick(i)
  /\ WF_vars(Receiver)
  /\ WF_vars(HandleWait)

\* thread i has executed a wait-start state and its flag is still set
suspended(i) ==
  LET row == itemNumOfList(pcIds, thr[i].tid)
  IN /\ thr[i].st = "running" /\ cfg.hasWait /\ row # 0
     /\ itemOfList(waitFlags, row) # 0

\* thread i has its flag cleared and is past its poll state, or was stopped
released(i) ==
  LET row == itemNumOfList(pcIds, thr[i].tid)
  IN \/ thr[i].st # "running"
     \/ row = 0
     \/ /\ itemOfList(waitFlags, row) = 0
        /\ ~isPollPc(itemOfList(pcVals, row))

\* C15: under fair scheduling every thread that executed a wait-start state
\* eventually has its flag cleared and leaves its poll state, however the
\* wait-starts of the threads interleave
C15_WaitsEnd == \A i \in Threads : suspended(i) ~> released(i)

\* a step of a receiver activation: the scheduled activation runs, no
\* caller thread and no green flag is involved
receiverStep ==
  /\ recv.fresh /\ thr' = thr /\ greenFlags' = greenFlags
  /\ <<waitQueue, recv>>' # <<waitQueue, recv>>

handlerStep ==
  /\ recv.tok # NoToken /\ recv'.tok = NoToken /\ ~recv'.fresh
  /\ thr' = thr /\ greenFlags' = greenFlags

\* C17: a handler that resumes clears the flag in the row its token has
\* then, wherever the row has moved since the call, and leaves every other
\* row's flag as it was
C17_HandlerClearsOwnRow ==
  [][handlerStep =>
       LET row == itemNumOfList(pcIds, recv.tok)
       IN /\ row \in 1..Len(waitFlags)
          /\ Len(waitFlags') = Len(waitFlags)
          /\ waitFlags'[row] = 0
          /\ \A k \in 1..Len(waitFlags) :
               k # row => waitFlags'[k] = waitFlags[k]]_vars

\* the handler was called while its token was in the second row, the first
\* row was deleted during its wait, and it has cleared the flag of its token
C17_Witness ==
  /\ recv.tok = NoToken /\ ~recv.fresh
  /\ recv.row = 2
  /\ itemNumOfList(pcIds, recv.savedTid) = 1
  /\ waitFlags = <<0>>
  /\ \E i \in Threads : thr[i].st = "running" /\ thr[i].tid = recv.savedTid
  /\ \E i \in Threads : thr[i].st = "done"

isWaitStartPc(pc) ==
  \E k \in 1..Len(cfg.sorted) :
    /\ cfg.sorted[k].pc = pc
    /\ cfg.sorted[k].kind \in {"waitStart", "broadcastWaitStart"}

\* thread i has just run a pass of run_N and is still live
passOf(i) == thr'[i] # thr[i] /\ thr'[i].st = "running"

PcRotations ==
  { [k \in 1..PcRange |-> ((k + r) % PcRange) + 1] : r \in 0..(PcRange - 1) }

DispatchScripts ==
  { <<If("x<2", <<Stop("this script")>>), ChangeX>>,
    <<ChangeX, Stop("this script"), Bcast>>,
    <<Repeat(Lit(20), <<>>), ChangeX>>,
    <<Repeat(Lit(20), <<ChangeX>>), Bcast>>,
    <<Forever(<<>>)>>,
    <<Forever(<<If("x>1", <<>>)>>)>>,
    <<RepeatUntil("x>1", <<>>), ChangeX>>,
    <<While("x<2", <<ChangeX>>), Bcast>>,
    <<ForEach(Lit(20), <<>>)>>,
    <<IfElse("x<2", <<ChangeX>>, <<SetX0>>), Bcast>> }

InitDispatch ==
  /\ \E chain \in DispatchScripts, perm \in PcRotations :
       cfg = flatten(chain, perm, perm[1])
  /\ InitActor
  /\ bst = NoBst
  /\ target = NoTarget

SpecDispatch == InitDispatch /\ [][NextOne]_vars

\* C19: every call of step_N returns: the keep-going loop never runs out
\* of yielding transitions
C19_DispatcherTerminates == \A i \in Threads : thr[i].st # "hung"

deadPcs == {cfg.sorted[k].pc : k \in {j \in 1..Len(cfg.sorted) : cfg.sorted[j].isDead}}

\* the PCs a state body can write, before yield-redirect resolution
successorPcs(st) ==
  CASE st.kind = "branch" -> {st.truePc, st.falsePc}
    [] st.kind \in {"repeatCheck", "forEachCheck"} -> {st.bodyPc, st.exitPc}
    [] st.kind \in {"waitStart", "broadcastWaitStart"} -> {st.pollPc}
    [] st.kind = "waitPoll" -> {st.continuationPc, st.pc}
    [] st.kind = "terminal" -> {}
    [] OTHER -> {st.nextPc}

\* C20, the graph: no successor of a real state, nor the entry PC, resolves
\* to the PC of a dead state
C20_NoEdgeToDead ==
  /\ resolvePc(cfg.yieldRedirects, cfg.entryPc) \notin deadPcs
  /\ \A k \in 1..Len(cfg.sorted) :
       ~cfg.sorted[k].isDead =>
         \A p \in successorPcs(cfg.sorted[k]) :
           resolvePc(cfg.yieldRedirects, p) \notin deadPcs

\* C20: no execution that starts at entryPc dispatches to a dead state
C20_DeadNeverDispatched ==
  /\ C20_NoEdgeToDead
  /\ \A i \in Threads : \A k \in 1..Len(thr[i].path) :
       thr[i].path[k][2] \notin deadPcs

\* ------------------------------------------------------------------------
\* PC allocation with colliding draws: the stream of random draws repeats
\* values and hits the exit sentinel
\* ------------------------------------------------------------------------
StreamLen == 3 * PcRange

PcSpan == PC_MAX - PC_MIN + 1

PcStreams ==
  { [k \in 1..StreamLen |-> randomHugeIntValue(PcRange + ((k + 1) \div 2))],
    [k \in 1..StreamLen |->
       randomHugeIntValue(IF k % 3 = 0 THEN PcRange
                          ELSE PcRange - ((k + 2) \div 3))],
    [k \in 1..StreamLen |-> randomHugeIntValue((k * 7) % PcSpan)],
    [k \in 1..StreamLen |-> randomHugeIntValue(((k \div 2) * 11) % PcSpan)] }

\* chains whose loop substacks are present but decompose to no state
HollowScripts ==
  { <<ChangeX, Forever(<<AllAtOnce(<<>>)>>), Bcast>>,
    <<Forever(<<Missing>>)>>,
    <<Repeat(Lit(20), <<AllAtOnce(<<>>)>>), ChangeX>>,
    <<While("x<2", <<Missing>>), ChangeX>>,
    <<If("x<2", <<AllAtOnce(<<Missing>>)>>), ChangeX>>,
    <<WaitUntil("x>1"), ChangeX>> }

InitAlloc ==
  /\ \E chain \in DispatchScripts \cup WaitScripts \cup HollowScripts,
        perm \in PcStreams :
       cfg = flatten(chain, perm, PC_MAX)
  /\ InitActor
  /\ bst = NoBst
  /\ target = NoTarget

SpecAlloc == InitAlloc /\ [][NextOne]_vars

allocatedPcs ==
  [k \in 1..(Len(cfg.states) + Len(cfg.yieldRedirects)) |->
     IF k <= Len(cfg.states) THEN cfg.states[k].pc
     ELSE cfg.yieldRedirects[k - Len(cfg.states)][1]]

\* C21 as stated: the PCs of the real states, of the dead states and the keys
\* of the yield redirects of one decomposition are pairwise distinct, lie in
\* PC_MIN..PC_MAX and are not the exit sentinel
C21_PcsDistinct ==
  \A j \in 1..Len(allocatedPcs) :
    /\ allocatedPcs[j] \in PC_MIN..PC_MAX
    /\ allocatedPcs[j] # EXIT_PC
    /\ \A k \in 1..Len(allocatedPcs) :
         allocatedPcs[j] = allocatedPcs[k] => j = k

\* C21: every allocated PC lies in PC_MIN..PC_MAX and is not the exit
\* sentinel; the PCs of the real and dead states are pairwise distinct, the
\* keys of the yield redirects are pairwise distinct, and a key is the PC of
\* a state only for the self-looping state of a forever without a substack,
\* whose one allocation is both (the redirect maps the key to itself)
C21_AllocationsDistinct ==
  /\ \A j \in 1..Len(allocatedPcs) :
       allocatedPcs[j] \in PC_MIN..PC_MAX /\ allocatedPcs[j] # EXIT_PC
  /\ \A j, k \in 1..Len(cfg.states) :
       cfg.states[j].pc = cfg.states[k].pc => j = k
  /\ \A j, k \in 1..Len(cfg.yieldRedirects) :
       cfg.yieldRedirects[j][1] = cfg.yieldRedirects[k][1] => j = k
  /\ \A j \in 1..Len(cfg.states), k \in 1..Len(cfg.yieldRedirects) :
       cfg.states[j].pc = cfg.yieldRedirects[k][1]
         => /\ cfg.yieldRedirects[k][2] = cfg.states[j].pc
            /\ cfg.states[j].nextPc = cfg.states[j].pc
            /\ cfg.states[j].kind = "normal"
            /\ cfg.states[j].bodyBlockIds = <<>>

\* a decomposition with real states, dead states and a yield redirect whose
\* allocation had to draw again, run to completion
C21_Witness ==
  /\ cfg.draws > Len(allocatedPcs)
  /\ Len(cfg.yieldRedirects) > 0
  /\ \E k \in 1..Len(cfg.states) : cfg.states[k].isDead
  /\ \E k \in 1..Len(cfg.states) : ~cfg.states[k].isDead
  /\ thr[1].st = "done"

\* the PCs of the real states of the state set
realPcs == {cfg.states[k].pc : k \in {j \in 1..Len(cfg.states) : ~cfg.states[j].isDead}}

\* C22: entryPc and every successor PC of every real state, after the one
\* yield-redirect resolution, is the exit sentinel or the PC of a real state
C22_SuccessorsAreStates ==
  /\ resolvePc(cfg.yieldRedirects, cfg.entryPc) \in realPcs \cup {EXIT_PC}
  /\ \A k \in 1..Len(cfg.states) :
       ~cfg.states[k].isDead =>
         \A p \in successorPcs(cfg.states[k]) :
           resolvePc(cfg.yieldRedirects, p) \in realPcs \cup {EXIT_PC}

\* what follows at run time: every dispatch runs the state whose PC the
\* thread's row held (or the row was already deleted)
C22_DispatchHitsStoredPc ==
  \A i \in Threads : \A k \in 1..Len(thr[i].path) :
    thr[i].path[k][1] \in {thr[i].path[k][2], Empty}

\* ------------------------------------------------------------------------
\* for each: one thread running a chain that starts with a for-each loop
\* ------------------------------------------------------------------------
MaxTraceEach == 10

EachScripts ==
  { <<ForEachX(Arg, <<ChangeX>>), Bcast>>,
    <<ForEachX(Arg, <<SetX0>>), Bcast>>,
    <<ForEachX(Arg, <<ChangeX, ChangeX>>)>>,
    <<ForEach(Arg, <<ChangeX>>), Bcast>>,
    <<ForEachX(Arg, <<>>), ChangeX>>,
    <<ForEachX(Lit(20), <<If("x>1", <<SetX0>>)>>), Bcast>> }

InitEach == InitWith(EachScripts)
TickEach == TickWith(1, MaxTraceEach)

NextEach ==
  \/ StartOne
  \/ TickEach

SpecEach == InitEach /\ [][NextEach]_vars

\* the values the loop variable was given so far, in order
loopVarValues == SelectSeq(thr[1].trace, LAMBDA e : e[1] = "loopvar")

\* ceil(N) for the N the loop was entered with, 0 when N <= 0
eachCount ==
  LET c == ceiling(evalExpr(cfg.chain[1].expr, thr[1].arg))
  IN IF c > 0 THEN c ELSE 0

\* C23: a flattened for each runs its body ceil(N) times (not at all when
\* N <= 0); the k-th iteration starts with the loop variable equal to k,
\* whatever the body assigned to it before; when the loop has exited, its
\* counter and bound entries are gone from the counter store
C23_ForEachCount ==
  thr[1].st # "idle" =>
    /\ Len(loopVarValues) <= eachCount
    /\ \A k \in 1..Len(loopVarValues) : loopVarValues[k][2] = k
    /\ \A j \in 1..(Len(thr[1].trace) - 1) :
         /\ cfg.chain[1].varField = "x"
         /\ thr[1].trace[j][1] = "loopvar"
         /\ thr[1].trace[j + 1][1] = "change"
         => thr[1].trace[j + 1][2] = thr[1].trace[j][2] + 1
    /\ thr[1].st = "done" =>
         /\ Len(loopVarValues) = eachCount
         /\ counterKeys = <<>>
         /\ counterVals = <<>>

\* a loop over 2.4 whose body changes the loop variable has finished its
\* three iterations
C23_Witness ==
  /\ thr[1].st = "done"
  /\ thr[1].arg = 24
  /\ Len(loopVarValues) = 3
  /\ cfg.chain[1].varField = "x"
  /\ \E j \in 1..Len(thr[1].trace) : thr[1].trace[j] = <<"change", 4>>

\* ------------------------------------------------------------------------
\* forever: one thread running a chain with a forever loop and a continuation
\* ------------------------------------------------------------------------
ForeverScripts ==
  { <<ChangeX, Forever(<<ChangeX>>), Bcast>>,
    <<Forever(<<>>), Bcast>>,
    <<Forever(<<If("x>1", <<SetX0>>), ChangeX>>), Bcast>>,
    <<Forever(<<ChangeX, If("x>1", <<SetX0>>)>>), Bcast>>,
    <<SetX0, Forever(<<AllAtOnce(<<ChangeX>>)>>), Bcast>> }

InitForever == InitWith(ForeverScripts \cup HollowScripts)

SpecForever == InitForever /\ [][NextOne]_vars

\* the PC in the row of thread 1
rowPc == itemOfList(pcVals, itemNumOfList(pcIds, thr[1].tid))

\* the chain is one of the forever chains whose loop body has a state, or
\* has no substack at all
plainForever == cfg.chain \in ForeverScripts

\* C24: a flattened forever never reaches the continuation and never ends;
\* each tick runs no state twice and ends on the yielding transition back
\* to the first state of the body, which is a real state; a forever
\* without a body is one state that is its own successor and is the only
\* state a tick runs
C24_ForeverNeverLeaves ==
  hasOpcode(cfg.chain, "control_forever") /\ thr[1].st # "idle" =>
    /\ thr[1].st = "running"
    /\ \A j \in 1..Len(thr[1].trace) : thr[1].trace[j][1] # "broadcast"
    /\ \A j, k \in 1..Len(thr[1].path) :
         thr[1].path[j][2] = thr[1].path[k][2] => j = k
    /\ \E r \in 1..Len(cfg.yieldRedirects) :
         /\ rowPc = cfg.yieldRedirects[r][2]
         /\ rowPc \in realPcs
    /\ cfg.chain[1] = Forever(<<>>) =>
         /\ Len(thr[1].path) = 1
         /\ thr[1].path[1][2] = rowPc
         /\ \E k \in 1..Len(cfg.states) :
              cfg.states[k].pc = rowPc /\ cfg.states[k].nextPc = rowPc

\* the same on the chains whose forever body has a state or is absent
C24_PlainForeverNeverLeaves == plainForever => C24_ForeverNeverLeaves

\* a forever with a body has gone round three times
C24_Witness ==
  /\ plainForever
  /\ thr[1].st = "running"
  /\ Len(SelectSeq(thr[1].trace, LAMBDA e : e[1] = "change")) >= 3
  /\ hasOpcode(cfg.chain, "control_if")

\* two threads whose rows end by a terminal state or by the driver's cleanup
\* while the other thread's row still waits
RowScripts ==
  { <<ChangeX, Wait(Lit(10)), If("x>1", <<Stop("this script")>>), Bcast>>,
    <<ChangeX, If("x>1", <<DeleteThisClone>>), Wait(Lit(10))>> }

InitRows == InitWith(RowScripts)

SpecRows == InitRows /\ [][Next]_vars

\* the row a token owns: its PC, wait flag and payload
rowOfToken(ids, vals, flags, msgs, tok) ==
  LET idx == itemNumOfList(ids, tok)
  IN <<itemOfList(vals, idx), itemOfList(flags, idx), itemOfList(msgs, idx)>>

\* the step is a pass of thread i's driver (and not the green flag, nor
\* another thread's stop that ended thread i)
passRun(i) ==
  /\ thr'[i] # thr[i]
  /\ thr'[i] # [thr[i] EXCEPT !.st = "dead"]
  /\ greenFlags' = greenFlags

\* a pass of thread i ended with the thread's row gone
rowDeleted(i) ==
  /\ passRun(i)
  /\ itemNumOfList(pcIds', thr'[i].tid) = 0

\* C25: a pass that deletes its thread's row, in the driver's cleanup or in
\* a terminal state, takes the same position out of every registry list:
\* every other token keeps its row, with the PC, flag and payload it had
C25_DeletionKeepsOtherRows ==
  [][\A i \in Threads :
       rowDeleted(i) =>
         /\ Len(pcVals') = Len(pcIds')
         /\ cfg.hasWait => /\ Len(waitFlags') = Len(pcIds')
                           /\ Len(bcastPendingMsg') = Len(pcIds')
         /\ \A tok \in seqToSet(pcIds) \ {thr'[i].tid} :
              /\ itemNumOfList(pcIds', tok) # 0
              /\ rowOfToken(pcIds', pcVals', waitFlags', bcastPendingMsg', tok)
                   = rowOfToken(pcIds, pcVals, waitFlags, bcastPendingMsg, tok)
     ]_vars

\* the first of two rows was deleted while the second thread waits with a
\* set flag: its row moved up by one
C25_Witness ==
  /\ thr[1].term
  /\ thr[1].st = "running"
  /\ thr[2].st = "running"
  /\ pcIds = <<thr[2].tid>>
  /\ Len(pcVals) = 1
  /\ waitFlags = <<1>>

EmptyScripts ==
  { <<If("x<2", <<>>), ChangeX>>,
    <<If("x<2", <<Missing>>), ChangeX>>,
    <<IfElse("x<2", <<>>, <<Missing>>), ChangeX>>,
    <<IfElse("x>1", <<Bcast>>, <<>>), ChangeX>>,
    <<If("", <<SetX0, Bcast>>), ChangeX>>,
    <<IfElse("", <<Bcast>>, <<SetX0>>), ChangeX>>,
    <<RepeatUntil("", <<>>), ChangeX>>,
    <<While("", <<Bcast>>), ChangeX>>,
    <<Repeat(Arg, <<Missing>>), ChangeX>>,
    <<ForEach(Arg, <<>>), ChangeX>>,
    <<IfElse("", <<>>, <<>>), ChangeX>>,
    <<WaitUntil(""), ChangeX>> }

InitEmpty == InitWith(EmptyScripts)

SpecEmpty == InitEmpty /\ [][NextOne]_vars

\* the substack has no first block, or its first id names no block
hollow(substack) == substack = <<>> \/ substack = <<Missing>>

stateAt(pc) == cfg.states[CHOOSE k \in 1..Len(cfg.states) : cfg.states[k].pc = pc]

\* the PC of the state made of the continuation `change x`
contPc ==
  cfg.states[CHOOSE k \in 1..Len(cfg.states) :
               /\ ~cfg.states[k].isDead
               /\ cfg.states[k].bodyBlockIds = <<ChangeX>>
               /\ cfg.states[k].nextPc = EXIT_PC].pc

\* pc is a yield redirect that leads back to the state at checkPc
backEdge(pc, checkPc) ==
  yieldRedirectsHas(cfg.yieldRedirects, pc) /\ resolvePc(cfg.yieldRedirects, pc) = checkPc

\* C27: the entry of an empty or missing substack is the continuation the
\* substack was given (the chain's continuation for if and if-else, the way
\* back to the check for a loop); a branch state without a condition always
\* writes its false arm; every successor of every state is a PC
C27_EmptySubstacks ==
  LET b == cfg.chain[1]
      e == stateAt(cfg.entryPc)
  IN
  /\ b.opcode \in {"control_if", "control_if_else"} /\ hollow(b.SUBSTACK) =>
       e.kind = "branch" /\ e.truePc = contPc
  /\ b.opcode = "control_if" => e.falsePc = contPc
  /\ b.opcode = "control_if_else" /\ hollow(b.SUBSTACK2) => e.falsePc = contPc
  /\ b.opcode = "control_repeat_until" /\ hollow(b.SUBSTACK) =>
       backEdge(e.falsePc, e.pc) /\ e.truePc = contPc
  /\ b.opcode = "control_while" /\ hollow(b.SUBSTACK) =>
       backEdge(e.truePc, e.pc) /\ e.falsePc = contPc
  /\ b.opcode \in {"control_repeat", "control_for_each"} /\ hollow(b.SUBSTACK) =>
       LET c == stateAt(e.nextPc)
       IN backEdge(c.bodyPc, c.pc) /\ c.exitPc = contPc
  /\ \A j \in 1..Len(thr[1].writes) :
       LET st == stateAt(thr[1].writes[j].statePc)
       IN st.kind = "branch" /\ st.conditionBlockId = "" =>
            thr[1].writes[j].dest = resolvePc(cfg.yieldRedirects, st.falsePc)
  /\ \A k \in 1..Len(cfg.states) :
       successorPcs(cfg.states[k]) \subseteq PC_MIN..PC_MAX

\* an if without a condition and with a body has been passed: the body did
\* not run, the continuation did
C27_Witness ==
  /\ cfg.chain[1].opcode = "control_if"
  /\ cfg.chain[1].CONDITION = ""
  /\ ~hollow(cfg.chain[1].SUBSTACK)
  /\ thr[1].st = "done"
  /\ thr[1].trace = <<<<"change", 1>>>>

\* ------------------------------------------------------------------------
\* The green flag, step by step. A click stops every thread and starts the
\* actor's green-flag hats: the cleanup hat, and the hats that were too
\* short to be flattened and call a flattened procedure. A flattened
\* green-flag hat was turned into a receiver of the start signal.
\* ------------------------------------------------------------------------
FlagHats == {"flagHat", "flagCaller"}

FlagScripts ==
  { <<ChangeX, Bcast>>,
    <<ChangeX, Repeat(Lit(20), <<ChangeX>>), Bcast>>,
    <<Repeat(Arg, <<ChangeX>>), Bcast>> }

InitFlag ==
  /\ \E chain \in FlagScripts, perm \in PcPerms :
       cfg = flatten(chain, perm, perm[1])
  /\ \E h \in FlagHats :
       /\ pcIds = <<>> /\ pcVals = <<>> /\ waitFlags = <<>>
       /\ bcastPendingMsg = <<>> /\ counterKeys = <<>> /\ counterVals = <<>>
       /\ waitQueue = <<>> /\ recv = [fresh |-> FALSE, tok |-> NoToken,
                                        savedTid |-> 0, row |-> 0]
       /\ keepGoing = 0 /\ cachedPc = 0 /\ baseIndex = 0 /\ x = 0
       /\ thr = [i \in Threads |-> IdleThread]
       /\ greenFlags = 0
       /\ flag = [NoFlag EXCEPT !.hat = h]
  /\ bst = NoBst
  /\ target = NoTarget

\* runtime.greenFlag: stopAll, then the green-flag hats are started; the
\* k-th click is answered by thread k
FlagClick ==
  /\ greenFlags < NThreads
  /\ ~flag.cleanup
  /\ greenFlags > 0 => thr[greenFlags].st # "idle"
  /\ greenFlags' = greenFlags + 1
  /\ thr' = [j \in Threads |->
               IF thr[j].st \in {"running", "hung"}
               THEN [thr[j] EXCEPT !.st = "dead"] ELSE thr[j]]
  /\ recv' = stopReceiver(recv)
  /\ flag' = [flag EXCEPT !.cleanup = TRUE, !.start = FALSE]
  /\ UNCHANGED <<cfg, pcIds, pcVals, waitFlags, bcastPendingMsg, counterKeys,
                 counterVals, waitQueue, keepGoing, cachedPc, baseIndex, x,
                 bst, target>>

\* the cleanup hat: delete all of every list, then broadcast the start
\* signal, without a yield in between
buildGreenFlagCleanup ==
  /\ flag.cleanup
  /\ pcIds' = <<>> /\ pcVals' = <<>> /\ counterKeys' = <<>>
  /\ counterVals' = <<>>
  /\ waitFlags' = <<>> /\ bcastPendingMsg' = <<>> /\ waitQueue' = <<>>
  /\ flag' = [flag EXCEPT !.cleanup = FALSE, !.start = (flag.hat = "flagHat")]
  /\ UNCHANGED <<cfg, recv, keepGoing, cachedPc, baseIndex, x, thr,
                 greenFlags, bst, target>>

\* the thread of the current click starts run_N: a flattened hat on the
\* start signal, the caller of a flattened procedure on the click itself
StartFlag(i) ==
  /\ greenFlags = i
  /\ flag.hat = "flagHat" => flag.start
  /\ StartWith(i, ConcArgs)

\* threads started in a tick run one pass each before any runs its second:
\* the cleanup hat has run when a driver is resumed
TickFlag(i) ==
  /\ ~flag.cleanup
  /\ Tick(i)

NextFlag ==
  \/ FlagClick
  \/ buildGreenFlagCleanup
  \/ \E i \in Threads : StartFlag(i)
  \/ \E i \in Threads : TickFlag(i)

SpecFlag == InitFlag /\ [][NextFlag]_vars

\* a step in which a flattened green-flag script starts finds everything
\* emptied and the start signal sent; a step of the cleanup hat finds no row
\* of a running thread
cleanupBeforeStart ==
  /\ \A i \in Threads :
       thr[i].st = "idle" /\ thr'[i].st # "idle" /\ flag.hat = "flagHat" =>
         /\ ~flag.cleanup /\ flag.start
         /\ pcIds = <<>> /\ pcVals = <<>> /\ waitFlags = <<>>
         /\ bcastPendingMsg = <<>> /\ counterKeys = <<>>
         /\ counterVals = <<>> /\ waitQueue = <<>>
  /\ flag.cleanup /\ ~flag'.cleanup =>
       \A i \in Threads :
         thr[i].st = "running" => itemNumOfList(pcIds, thr[i].tid) = 0

\* C28: a thread of a flattened green-flag script appends its row only
\* after the cleanup of the click has emptied the registry lists, the
\* counter store and the queue and sent the start signal; and the cleanup
\* removes no row of a thread that is running
C28_CleanupBeforeStart == [][cleanupBeforeStart]_vars

\* the same for an actor whose flattened script is itself a green-flag hat
C28_FlattenedHatsStartClean ==
  [][flag.hat = "flagHat" => cleanupBeforeStart]_vars

\* ------------------------------------------------------------------------
\* threads that end inside a loop
\* ------------------------------------------------------------------------
LeakScripts ==
  { <<Repeat(Lit(20), <<If("x>1", <<Stop("all")>>), ChangeX>>), Bcast>>,
    <<ForEach(Lit(20), <<DeleteThisClone>>), Bcast>>,
    <<Repeat(Lit(20), <<ForEach(Lit(20), <<If("x>1", <<Stop("all")>>), ChangeX>>)>>)>>,
    <<Repeat(Arg, <<If("x>1", <<Stop("this script")>>), ChangeX>>), Bcast>>,
    <<Repeat(Arg, <<ForEach(Lit(14), <<ChangeX>>)>>), Bcast>> }

InitLeak == InitWith(LeakScripts)

SpecLeak == InitLeak /\ [][NextEach]_vars

\* C29: the counter keys and counter values have the same length, and once
\* the thread has ended, by the exit sentinel or by a terminal state inside
\* loops, no counter key holds its token
C29_NoCounterLeak ==
  /\ Len(counterKeys) = Len(counterVals)
  /\ thr[1].st \in {"done", "dead"} =>
       \A k \in 1..Len(counterKeys) : counterKeys[k][1] # thr[1].tid

\* the same for the threads that end by the exit sentinel
C29_NoCounterLeakAtExit ==
  /\ Len(counterKeys) = Len(counterVals)
  /\ thr[1].st = "done" /\ ~thr[1].term =>
       \A k \in 1..Len(counterKeys) : counterKeys[k][1] # thr[1].tid

\* ------------------------------------------------------------------------
\* recursion: a flattened procedure whose body calls the procedure again
\* ------------------------------------------------------------------------
RecScripts ==
  { <<If("x<2", <<ChangeX, CallSelf>>), Bcast>>,
    <<ChangeX, If("x<2", <<CallSelf, Bcast>>)>>,
    <<If("x<2", <<ChangeX, CallSelf, Bcast>>)>>,
    <<ChangeX, If("x<2", <<CallSelf>>), Repeat(Lit(10), <<Bcast>>)>>,
    <<ChangeX, If("x<2", <<CallSelf>>), Repeat(Arg, <<Bcast>>)>>,
    <<If("x<2", <<ChangeX, CallSelf>>), Repeat(Arg, <<ChangeX>>)>>,
    <<If("x<2", <<ChangeX, CallSelf>>), Wait(Arg), Bcast>>,
    <<ChangeX, Wait(Lit(10)), If("x<2", <<CallSelf, Bcast>>)>> }

InitRec == InitWith(RecScripts)

SpecRec == InitRec /\ [][NextEach]_vars

\* C30: every PC write of a pass, those after a nested call has returned
\* too, goes to the row of the invocation that makes it; the dispatcher
\* then reads the PC that was written; a thread that has ended has done
\* what the procedure does when it is run unflattened
C30_OuterWriteOwnRow ==
  /\ \A j \in 1..Len(thr[1].writes) :
       thr[1].writes[j].row = thr[1].writes[j].ownRow
  /\ \A k \in 1..Len(thr[1].path) :
       thr[1].path[k][1] = thr[1].path[k][2]
  /\ thr[1].st # "hung"

====
